---- MODULE Spec2Model ----
(***************************************************************************)
(* Long-audio transcription pipeline of Scriberr: the audio splitter       *)
(* (audio_splitter.go), the chunk result merger (merger.go) and the AI     *)
(* post-processor (ai_postprocessor.go, segment_merger.go).                *)
(*                                                                         *)
(* Times are integers counted in ticks; TicksPerSec ticks make a second.   *)
(* Strings the code takes apart or builds (speaker labels, texts) are      *)
(* sequences of one-character strings; strings it only copies or compares  *)
(* are TLA+ strings.  A Go pointer *string is a sequence of length 0 (nil) *)
(* or 1 (the string pointed to).  A Go pointer to a struct is a record     *)
(* with a field nil.                                                       *)
(***************************************************************************)
EXTENDS Integers, Sequences, FiniteSets, TLC

VARIABLES
    splInput,    \* the AudioInput handed to Split
    splPc,       \* "ready" before Split, "returned" after it
    splResult,   \* *SplitResult returned by Split (nil on error)
    splErr,      \* error returned by Split ("" is nil)
    splDir,      \* whether <temp>/<job>/chunks exists on disk
    splDisk,     \* indices NNN of the files chunk_NNN.mp3 on disk
    splPath,     \* which return statement of Split was taken
    splRaw,      \* the chunk list of Split before the degenerate-chunk filter
    splOrig,     \* whether the original input file is on disk
    splCleaned,  \* per CleanupChunks call: its argument, and the files
                 \* before and after it
    mrgResults,  \* []*TranscriptResult handed to MergeResults
    mrgChunks,   \* []ChunkInfo handed to MergeResults
    mrgRefsUsed, \* speakerRefsUsed handed to MergeResults
    mrgPc,       \* "ready" before MergeResults, "returned" after it
    mrgOut,      \* *TranscriptResult returned by MergeResults
    mrgSame,     \* whether the returned pointer is results[0] itself
    ptConfig,    \* the arguments NewAITextPostprocessor was called with
    ptProc,      \* the AITextPostprocessor
    ptInput,     \* the TranscriptResult handed to ProcessTranscript
    ptAfter,     \* that TranscriptResult as the caller finds it after the call
    ptPc,        \* "ready" before ProcessTranscript, "returned" after it
    ptOut,       \* *TranscriptResult returned by ProcessTranscript
    ptSame,      \* whether the returned pointer is the input itself
    ptErr,       \* error returned by ProcessTranscript, "" for nil
    ptCalls,     \* ChatCompletion calls made by ProcessTranscript
    ptLog,       \* per batch: the error that sent it to the fallback, and
                 \* the segments it added to allCleaned
    fnOp,        \* the helper function called on its own
    fnArg,       \* its arguments
    fnPc,        \* "ready" before the call, "returned" after it
    fnRet,       \* what it returned
    adPc,        \* where Transcribe is: "start", "inflight" (in client.Do),
                 \* "backoff" (in the select), "done"
    adAttempt,   \* attempt of the retry loop
    adOnWire,    \* whether the client.Do under way sent its request
    adClock,     \* seconds since Transcribe was called
    adWake,      \* when the timer of the backoff fires
    adCtx,       \* ctx.Err(): "" while the context is live
    adRet,       \* what Transcribe returned
    adSent,      \* per request sent: the second it left
    adFails,     \* per failed client.Do: the second, the error, the attempt
    adResp,      \* the HTTP response received, status 0 while there is none
    adCancel,    \* where Transcribe was when the context was cancelled
    adDoneAt,    \* the second Transcribe returned
    smpResult,   \* the *TranscriptResult handed to ExtractSpeakerSamples
    smpPc,       \* "ready", "extracted" after ExtractSpeakerSamples,
                 \* "cleaned" after CleanupSpeakerSamples
    smpSamples,  \* []SpeakerSample returned by ExtractSpeakerSamples
    smpErr,      \* error returned by ExtractSpeakerSamples ("" is nil)
    smpDir,      \* whether <temp>/speaker_samples exists on disk
    smpClips,    \* speakers whose file speaker_<label>.mp3 is on disk
    smpLog       \* per speaker handled: the label and how the extraction went

postVars == <<ptConfig, ptProc, ptInput, ptAfter, ptPc, ptOut, ptSame, ptErr, ptCalls, ptLog>>
fnVars == <<fnOp, fnArg, fnPc, fnRet>>
adVars == <<adPc, adAttempt, adOnWire, adClock, adWake, adCtx, adRet, adSent, adFails,
            adResp, adCancel, adDoneAt>>

sampleVars == <<smpResult, smpPc, smpSamples, smpErr, smpDir, smpClips, smpLog>>

mergeVars == <<mrgResults, mrgChunks, mrgRefsUsed, mrgPc, mrgOut, mrgSame>>

splitVars ==
    <<splInput, splPc, splResult, splErr, splDir, splDisk, splPath, splRaw, splOrig,
      splCleaned>>

-----------------------------------------------------------------------------
(* Bounds of the model *)

\* resolution of the model's clock: ticks per second
TicksPerSec == 2

\* most chunk files the cutter leaves in the chunk directory
MaxChunks == 3

\* most chunk results handed to one MergeResults call
MaxResults == 2

\* most segments and words, together, in the results of one MergeResults call
MaxItems == 2

\* most segments of a short result handed to ProcessTranscript
MaxIn == 2

\* most segments of a short array the LLM answers
MaxLLM == 3

\* seconds the clock of Transcribe runs for
AdMaxClock == 27

\* most seconds client.Do takes
AdMaxFlight == 1

\* most segments handed to splitIntoBatches on its own: two full batches
\* and two segments more
MaxSplitLen == 102

\* most segments of a cleaned list handed to ApplyMerges on its own
MaxCleaned == 4

\* most calls of CleanupChunks after one Split
MaxCleanups == 2

\* most results of a merge whose results differ in text and metadata only
MaxPlain == 3

\* most segments of one speaker handed to selectBestSegment
MaxSpeakerSegs == 3

-----------------------------------------------------------------------------
(* Generic helpers *)

Last(s) == s[Len(s)]

\* all sequences over S of length 0..n
SeqsUpTo(S, n) == UNION {[1..k -> S] : k \in 0..n}

-----------------------------------------------------------------------------
(* Splitter: audio_splitter.go *)

MaxFileSizeBytes == 25 * 1024 * 1024
MaxDurationMinutes == 5
ChunkDurationMinutes == 5
\* MinChunkDurationSeconds = 1.0, in ticks
MinChunkDurationSeconds == 1 * TicksPerSec

Secs(n) == n * TicksPerSec

NilPtr == [nil |-> TRUE]

InputPath == [dir |-> "upload", n |-> 0]
\* filepath.Join(chunkDir, "chunk_%03d.mp3")
ChunkFilePath(i) == [dir |-> "chunks", n |-> i]

ChunkInfo(path, start, dur, idx) ==
    [FilePath |-> path, StartTime |-> start, Duration |-> dur, OriginalIndex |-> idx]

\* input.Duration.Minutes() > MaxDurationMinutes, on ticks
NeedsSplittingStrict(input) ==
    \/ input.Size >= MaxFileSizeBytes
    \/ input.Duration >= MaxDurationMinutes * 60 * TicksPerSec

NeedsSplitting(input) ==
    \/ input.Size > MaxFileSizeBytes
    \/ input.Duration > MaxDurationMinutes * 60 * TicksPerSec

\* The chunk length in ticks.  Metadata["bitrate"] is [ok, val]: ok is false
\* when the key is absent or strconv.ParseFloat fails.  The float quotient is
\* cut to a whole tick.
calculateChunkDuration(input) ==
    LET dflt == ChunkDurationMinutes * 60 * TicksPerSec
        calc == IF input.Bitrate.ok /\ input.Bitrate.val > 0
                THEN (20 * 1024 * 1024 * 8 * TicksPerSec) \div input.Bitrate.val
                ELSE dflt
        d1   == IF calc < dflt THEN calc ELSE dflt
        d2   == IF d1 < Secs(60) THEN Secs(60) ELSE d1
    IN  IF d2 > Secs(300) THEN Secs(300) ELSE d2

\* findChunks: the chunk files of the directory, sorted by index
findChunks(n) == [i \in 1..n |-> ChunkInfo(ChunkFilePath(i - 1), 0, 0, i - 1)]

\* a reading of ffprobe that is an error
ProbeError == -1

\* populateChunkDurations: probe[i] is what getAudioDuration gives for chunk
\* i.  Stops at the first error, leaving the chunks before it populated.
RECURSIVE populateFrom(_, _, _, _)
populateFrom(chunks, probe, i, cumulativeStart) ==
    IF i > Len(chunks) THEN [err |-> FALSE, chunks |-> chunks]
    ELSE IF probe[i] = ProbeError THEN [err |-> TRUE, chunks |-> chunks]
    ELSE populateFrom(
            [chunks EXCEPT ![i].StartTime = cumulativeStart, ![i].Duration = probe[i]],
            probe, i + 1, cumulativeStart + probe[i])

populateChunkDurations(chunks, probe) == populateFrom(chunks, probe, 1, 0)

RECURSIVE estimateFrom(_, _, _, _, _)
estimateFrom(chunks, totalDuration, chunkDuration, i, cumulativeStart) ==
    IF i > Len(chunks) THEN chunks
    ELSE LET remaining == totalDuration - cumulativeStart
             d == IF remaining < chunkDuration THEN remaining ELSE chunkDuration
         IN  estimateFrom(
                [chunks EXCEPT ![i].StartTime = cumulativeStart, ![i].Duration = d],
                totalDuration, chunkDuration, i + 1, cumulativeStart + d)

estimateChunkDurations(chunks, totalDuration, chunkDuration) ==
    estimateFrom(chunks, totalDuration, chunkDuration, 1, 0)

\* the filter keeping only the chunks longer than MinChunkDurationSeconds
FilterChunksLonger(chunks) ==
    SelectSeq(chunks, LAMBDA c : c.Duration > MinChunkDurationSeconds)

\* the degenerate-chunk filter of Split: the chunks that are kept
FilterChunks(chunks) ==
    SelectSeq(chunks, LAMBDA c : c.Duration >= MinChunkDurationSeconds)

\* What Split does, given what the environment answers: whether MkdirAll
\* succeeds, whether ffmpeg exits 0, how many chunk files it leaves, whether
\* ReadDir succeeds, and what ffprobe reads for each chunk.
SplitRun(input, mkdirOK, ffmpegOK, nFiles, readDirOK, probe) ==
    LET none == [result |-> NilPtr, dir |-> FALSE, disk |-> {}, raw |-> <<>>]
        made == [none EXCEPT !.dir = TRUE, !.disk = 0..(nFiles - 1)]
        chunkDurationSec == calculateChunkDuration(input)
        found == findChunks(nFiles)
        probed == populateChunkDurations(found, probe)
        chunks == IF probed.err
                  THEN estimateChunkDurations(found, input.Duration, chunkDurationSec)
                  ELSE probed.chunks
        validChunks == FilterChunks(chunks)
        removed == {chunks[i].OriginalIndex : i \in
                       {j \in 1..Len(chunks) : chunks[j].Duration < MinChunkDurationSeconds}}
    IN  IF ~NeedsSplitting(input)
        THEN [none EXCEPT !.result =
                 [nil |-> FALSE,
                  Chunks |-> <<ChunkInfo(input.FilePath, 0, input.Duration, 0)>>,
                  OriginalPath |-> input.FilePath,
                  NeedsSplit |-> FALSE]]
             @@ [err |-> "", path |-> "nosplit"]
        ELSE IF ~mkdirOK
        THEN none @@ [err |-> "failed to create chunk directory", path |-> "mkdir"]
        ELSE IF ~ffmpegOK
        THEN made @@ [err |-> "ffmpeg split failed", path |-> "ffmpeg"]
        ELSE IF ~readDirOK
        THEN made @@ [err |-> "failed to find chunks", path |-> "readdir"]
        ELSE IF nFiles = 0
        THEN made @@ [err |-> "no chunks were created", path |-> "nochunks"]
        ELSE IF validChunks = <<>>
        THEN [made EXCEPT !.disk = @ \ removed, !.raw = chunks]
             @@ [err |-> "no valid chunks after filtering (all chunks too short)",
                 path |-> IF probed.err THEN "estimated" ELSE "probed"]
        ELSE [made EXCEPT !.disk = @ \ removed, !.raw = chunks,
                          !.result = [nil |-> FALSE,
                                      Chunks |-> validChunks,
                                      OriginalPath |-> input.FilePath,
                                      NeedsSplit |-> TRUE]]
             @@ [err |-> "", path |-> IF probed.err THEN "estimated" ELSE "probed"]

\* the sizes, durations and bitrates the inputs are drawn from
InputSizes == {MaxFileSizeBytes - 1, MaxFileSizeBytes, MaxFileSizeBytes + 1}
InputDurations ==
    {MinChunkDurationSeconds - 1, MinChunkDurationSeconds,
     Secs(MaxDurationMinutes * 60), Secs(MaxDurationMinutes * 60) + 1,
     Secs(2 * MaxDurationMinutes * 60) + 1}
InputBitrates ==
    {[ok |-> FALSE, val |-> 0], [ok |-> TRUE, val |-> 0],
     [ok |-> TRUE, val |-> 1000000], [ok |-> TRUE, val |-> 8000000]}
AudioInputs ==
    [FilePath : {InputPath}, Size : InputSizes, Duration : InputDurations,
     Bitrate : InputBitrates]

\* what ffprobe may read for one chunk
ProbeReadings ==
    {ProbeError, MinChunkDurationSeconds - 1, MinChunkDurationSeconds,
     Secs(ChunkDurationMinutes * 60)}

SplitIdle ==
    /\ splInput = [FilePath |-> InputPath, Size |-> 0, Duration |-> 1,
                   Bitrate |-> [ok |-> FALSE, val |-> 0]]
    /\ splPc = "off"
    /\ splResult = NilPtr
    /\ splErr = ""
    /\ splDir = FALSE
    /\ splDisk = {}
    /\ splPath = "none"
    /\ splRaw = <<>>
    /\ splOrig = TRUE
    /\ splCleaned = <<>>

SplitInit ==
    /\ splInput \in AudioInputs
    /\ splPc = "ready"
    /\ splResult = NilPtr
    /\ splErr = ""
    /\ splDir = FALSE
    /\ splDisk = {}
    /\ splPath = "none"
    /\ splRaw = <<>>
    /\ splOrig = TRUE
    /\ splCleaned = <<>>

Split ==
    /\ splPc = "ready"
    /\ \E mkdirOK \in BOOLEAN, ffmpegOK \in BOOLEAN, nFiles \in 0..MaxChunks,
          readDirOK \in BOOLEAN :
         \E probe \in [1..nFiles -> ProbeReadings] :
            LET r == SplitRun(splInput, mkdirOK, ffmpegOK, nFiles, readDirOK, probe)
            IN  /\ splResult' = r.result
                /\ splErr' = r.err
                /\ splDir' = r.dir
                /\ splDisk' = r.disk
                /\ splPath' = r.path
                /\ splRaw' = r.raw
    /\ splPc' = "returned"
    /\ UNCHANGED <<splInput, splOrig, splCleaned>>

\* the files the splitter deals with: the original input, the chunk
\* directory and the chunk files in it
Files(orig, dir, disk) == [orig |-> orig, dir |-> dir, disk |-> disk]

\* os.Remove of a file: a path that is not there is an error, which is logged
Remove(fs, path) ==
    IF path = InputPath THEN [fs EXCEPT !.orig = FALSE]
    ELSE [fs EXCEPT !.disk = @ \ {path.n}]

\* os.Remove of filepath.Dir(path): only an empty directory goes
RemoveDir(fs, path) ==
    IF path.dir = "chunks" /\ fs.disk = {} THEN [fs EXCEPT !.dir = FALSE] ELSE fs

\* the loop of CleanupChunks over the chunks from i on
RECURSIVE removeChunks(_, _, _)
removeChunks(fs, result, i) ==
    IF i > Len(result.Chunks) THEN fs
    ELSE removeChunks(
            IF result.Chunks[i].FilePath # result.OriginalPath
            THEN Remove(fs, result.Chunks[i].FilePath)
            ELSE fs,
            result, i + 1)

\* the loop without the comparison to OriginalPath
RECURSIVE removeAllChunks(_, _, _)
removeAllChunks(fs, result, i) ==
    IF i > Len(result.Chunks) THEN fs
    ELSE removeAllChunks(Remove(fs, result.Chunks[i].FilePath), result, i + 1)

\* CleanupChunks that removes the files of every non-nil result
cleanupChunksOfAny(result, fs) ==
    IF result.nil THEN fs
    ELSE LET after == removeAllChunks(fs, result, 1)
         IN  IF Len(result.Chunks) > 0
             THEN RemoveDir(after, result.Chunks[1].FilePath)
             ELSE after

\* CleanupChunks: the files it leaves
cleanupChunks(result, fs) ==
    IF result.nil \/ ~result.NeedsSplit THEN fs
    ELSE LET after == removeChunks(fs, result, 1)
         IN  IF Len(result.Chunks) > 0
             THEN RemoveDir(after, result.Chunks[1].FilePath)
             ELSE after

\* CleanupChunks, called with what Split returned or with nil
CleanupChunks ==
    /\ splPc = "returned"
    /\ Len(splCleaned) < MaxCleanups
    /\ \E result \in {splResult, NilPtr} :
          LET before == Files(splOrig, splDir, splDisk)
              after == cleanupChunks(result, before)
          IN  /\ splOrig' = after.orig
              /\ splDir' = after.dir
              /\ splDisk' = after.disk
              /\ splCleaned' = Append(splCleaned,
                                      [arg |-> result, before |-> before, after |-> after])
    /\ UNCHANGED <<splInput, splPc, splResult, splErr, splPath, splRaw>>

-----------------------------------------------------------------------------
(* Strings as sequences of characters *)

Str_Speaker == <<"S", "p", "e", "a", "k", "e", "r", " ">>
Str_A == <<"A">>

DigitChars == <<"0", "1", "2", "3", "4", "5", "6", "7", "8", "9">>
IsDigit(c) == \E d \in 1..Len(DigitChars) : DigitChars[d] = c
IsSpace(c) == c \in {" ", "\t", "\n", "\r"}

\* fmt.Sprintf("%d", n) for n >= 0
RECURSIVE Itoa(_)
Itoa(n) == IF n < 10 THEN <<DigitChars[n + 1]>>
           ELSE Itoa(n \div 10) \o <<DigitChars[(n % 10) + 1]>>

HasPrefix(s, prefix) ==
    Len(s) >= Len(prefix) /\ SubSeq(s, 1, Len(prefix)) = prefix

\* strings.Contains
Contains(s, substr) ==
    \E i \in 1..(Len(s) - Len(substr) + 1) : SubSeq(s, i, i + Len(substr) - 1) = substr

\* strings.TrimPrefix
TrimPrefix(s, prefix) ==
    IF HasPrefix(s, prefix) THEN SubSeq(s, Len(prefix) + 1, Len(s)) ELSE s

\* strings.TrimSpace
RECURSIVE TrimLeft(_)
TrimLeft(s) == IF s # <<>> /\ IsSpace(Head(s)) THEN TrimLeft(Tail(s)) ELSE s
RECURSIVE TrimRight(_)
TrimRight(s) == IF s # <<>> /\ IsSpace(Last(s))
                THEN TrimRight(SubSeq(s, 1, Len(s) - 1)) ELSE s
\* the trim of the leading white space only
TrimSpaceLeading(s) == TrimLeft(s)
TrimSpace(s) == TrimRight(TrimLeft(s))

\* strings.Join(parts, sep); the parts are put together half by half
RECURSIVE Join(_, _)
Join(parts, sep) ==
    IF parts = <<>> THEN <<>>
    ELSE IF Len(parts) = 1 THEN parts[1]
    ELSE LET mid == Len(parts) \div 2
         IN  Join(SubSeq(parts, 1, mid), sep) \o sep
                \o Join(SubSeq(parts, mid + 1, Len(parts)), sep)

-----------------------------------------------------------------------------
(* Merger: merger.go *)

\* a *string: nil, or a pointer to s
NilStr == <<>>
PtrTo(s) == <<s>>

\* adjustSpeakerLabel without the TrimPrefix of "Speaker "
adjustSpeakerLabelNoTrim(speaker, chunkIndex, totalChunks, speakerRefsUsed) ==
    IF speaker = NilStr \/ speaker[1] = <<>> THEN speaker
    ELSE IF speakerRefsUsed THEN speaker
    ELSE IF totalChunks > 1
    THEN PtrTo(Itoa(chunkIndex) \o <<"-">> \o speaker[1])
    ELSE speaker

\* adjustSpeakerLabel that prefixes also when speaker references were used
adjustSpeakerLabelAlways(speaker, chunkIndex, totalChunks, speakerRefsUsed) ==
    IF speaker = NilStr \/ speaker[1] = <<>> THEN speaker
    ELSE IF totalChunks > 1
    THEN PtrTo(Itoa(chunkIndex) \o <<"-">> \o TrimPrefix(speaker[1], Str_Speaker))
    ELSE speaker

adjustSpeakerLabel(speaker, chunkIndex, totalChunks, speakerRefsUsed) ==
    IF speaker = NilStr \/ speaker[1] = <<>> THEN speaker
    ELSE IF speakerRefsUsed THEN speaker
    ELSE IF totalChunks > 1
    THEN PtrTo(Itoa(chunkIndex) \o <<"-">> \o TrimPrefix(speaker[1], Str_Speaker))
    ELSE speaker

\* timeOffset of the i-th result (i counts from 0, as in the code), taken
\* from the chunk before it
TimeOffsetPrev(chunks, i) ==
    IF i >= 1 /\ i <= Len(chunks) THEN chunks[i].StartTime ELSE 0

\* timeOffset of the i-th result (i counts from 0, as in the code)
TimeOffset(chunks, i) ==
    IF i < Len(chunks) THEN chunks[i + 1].StartTime ELSE 0

\* the copy of the entries of src into dst that keeps what dst has
putAllKeep(dst, src) == dst @@ src

\* for k, v := range src { dst[k] = v }
putAll(dst, src) == src @@ dst

\* the loop body of MergeResults that appends the result's segments in front
MergeStepPrepend(acc, result, i, total, chunks, speakerRefsUsed) ==
    IF result.nil THEN acc
    ELSE LET timeOffset == TimeOffset(chunks, i)
             segs == [k \in 1..Len(result.Segments) |->
                        LET seg == result.Segments[k]
                        IN  [Start |-> seg.Start + timeOffset,
                             End |-> seg.End + timeOffset,
                             Text |-> seg.Text,
                             Speaker |-> adjustSpeakerLabel(seg.Speaker, i, total,
                                                            speakerRefsUsed),
                             Language |-> seg.Language]]
         IN  [acc EXCEPT !.Segments = segs \o @]

\* the loop body of MergeResults for results[i] (i counts from 0)
MergeStep(acc, result, i, total, chunks, speakerRefsUsed) ==
    IF result.nil THEN acc
    ELSE LET timeOffset == TimeOffset(chunks, i)
             segs == [k \in 1..Len(result.Segments) |->
                        LET seg == result.Segments[k]
                        IN  [Start |-> seg.Start + timeOffset,
                             End |-> seg.End + timeOffset,
                             Text |-> seg.Text,
                             Speaker |-> adjustSpeakerLabel(seg.Speaker, i, total,
                                                            speakerRefsUsed),
                             Language |-> seg.Language]]
             words == [k \in 1..Len(result.WordSegments) |->
                        LET word == result.WordSegments[k]
                        IN  [Start |-> word.Start + timeOffset,
                             End |-> word.End + timeOffset,
                             Word |-> word.Word,
                             Score |-> word.Score,
                             Speaker |-> adjustSpeakerLabel(word.Speaker, i, total,
                                                            speakerRefsUsed)]]
         IN  [acc EXCEPT
                !.textParts = IF result.Text # <<>>
                              THEN Append(@, TrimSpace(result.Text)) ELSE @,
                !.Segments = @ \o segs,
                !.WordSegments = @ \o words,
                !.ProcessingTime = @ + result.ProcessingTime,
                !.totalConfidence = @ + result.Confidence,
                !.Language = IF @ = "" /\ result.Language # ""
                             THEN result.Language ELSE @,
                !.ModelUsed = IF @ = "" /\ result.ModelUsed # ""
                              THEN result.ModelUsed ELSE @,
                !.Metadata = putAll(@, result.Metadata.kv)]

RECURSIVE MergeLoop(_, _, _, _, _)
MergeLoop(acc, results, i, chunks, speakerRefsUsed) ==
    IF i >= Len(results) THEN acc
    ELSE MergeLoop(MergeStep(acc, results[i + 1], i, Len(results), chunks,
                             speakerRefsUsed),
                   results, i + 1, chunks, speakerRefsUsed)

\* A map[string]string is a function from its keys; a nil map has no keys.
EmptyMap == [k \in {} |-> ""]

\* MergeResults for two or more results: the merged TranscriptResult.  The
\* float quotient of the confidence is cut to a whole number.
MergeMany(results, chunks, speakerRefsUsed) ==
    LET acc0 == [Segments |-> <<>>, WordSegments |-> <<>>, Metadata |-> EmptyMap,
                 textParts |-> <<>>, ProcessingTime |-> 0, totalConfidence |-> 0,
                 Language |-> "", ModelUsed |-> ""]
        acc == MergeLoop(acc0, results, 0, chunks, speakerRefsUsed)
        meta1 == ("chunks_processed" :> ToString(Len(results))) @@ acc.Metadata
        meta2 == IF speakerRefsUsed
                 THEN ("speaker_references_used" :> "true") @@ meta1 ELSE meta1
    IN  [nil |-> FALSE,
         Text |-> Join(acc.textParts, <<" ">>),
         Language |-> acc.Language,
         Segments |-> acc.Segments,
         WordSegments |-> acc.WordSegments,
         Confidence |-> acc.totalConfidence \div Len(results),
         ProcessingTime |-> acc.ProcessingTime,
         ModelUsed |-> acc.ModelUsed,
         Metadata |-> [nil |-> FALSE, kv |-> meta2]]

\* MergeResults that merges a single result like any other
MergeResultsNoSingle(results, chunks, speakerRefsUsed) ==
    IF Len(results) = 0 THEN [out |-> NilPtr, same |-> FALSE]
    ELSE [out |-> MergeMany(results, chunks, speakerRefsUsed), same |-> FALSE]

\* MergeResults: the pointer returned, and whether it is results[0] itself
MergeResults(results, chunks, speakerRefsUsed) ==
    IF Len(results) = 0 THEN [out |-> NilPtr, same |-> FALSE]
    ELSE IF Len(results) = 1 THEN [out |-> results[1], same |-> TRUE]
    ELSE [out |-> MergeMany(results, chunks, speakerRefsUsed), same |-> FALSE]

(* The inputs of MergeResults *)

\* length of a chunk on the merger's clock
MergeChunkLen == 3

Seg(start, end, speaker) ==
    [Start |-> start, End |-> end, Text |-> <<"t">>, Speaker |-> speaker,
     Language |-> "en"]
Word(start, end, speaker) ==
    [Start |-> start, End |-> end, Word |-> <<"w">>, Score |-> 1, Speaker |-> speaker]

\* segments that differ in their times (the last starts after its chunk ends)
\* and segments that differ in their speaker label
SegPool ==
    {Seg(0, 1, PtrTo(Str_A)), Seg(2, 3, PtrTo(Str_A)),
     Seg(MergeChunkLen + 1, MergeChunkLen + 2, PtrTo(Str_A)),
     Seg(0, 1, NilStr), Seg(0, 1, PtrTo(<<>>)),
     Seg(0, 1, PtrTo(Str_Speaker \o Str_A)), Seg(0, 1, PtrTo(Str_Speaker))}
WordPool ==
    {Word(1, 2, NilStr), Word(1, 2, PtrTo(Str_Speaker \o Str_A))}

TranscriptResult(i, segs, words) ==
    [nil |-> FALSE,
     Text |-> <<"c", "h", "u", "n", "k", "-">> \o Itoa(i),
     Language |-> "en",
     Segments |-> segs,
     WordSegments |-> words,
     Confidence |-> 1,
     ProcessingTime |-> 1,
     ModelUsed |-> "whisper-1",
     Metadata |-> [nil |-> TRUE, kv |-> EmptyMap]]

\* the results a call may hold at index i with at most budget items
ResultsWithin(i, budget) ==
    {NilPtr} \cup
    UNION {{TranscriptResult(i, segs, words) :
               words \in SeqsUpTo(WordPool, budget - Len(segs))} :
           segs \in SeqsUpTo(SegPool, budget)}

ItemsOf(r) == IF r.nil THEN 0 ELSE Len(r.Segments) + Len(r.WordSegments)

\* the result lists results[i..n-1] with at most budget items
RECURSIVE ResultLists(_, _, _)
ResultLists(i, n, budget) ==
    IF i >= n THEN {<<>>}
    ELSE UNION {{<<r>> \o rest : rest \in ResultLists(i + 1, n, budget - ItemsOf(r))} :
                r \in ResultsWithin(i, budget)}

\* chunk lists of m chunks of MergeChunkLen each: from 0 on, from first on
\* (a dropped first chunk), and with the chunks from the second on moved by gap
ChunkList(m, first, gap) ==
    [k \in 1..m |->
        ChunkInfo(ChunkFilePath(k - 1),
                  first + (k - 1) * MergeChunkLen + (IF k >= 2 THEN gap ELSE 0),
                  MergeChunkLen, k - 1)]
\* as many chunks as results, or fewer (no chunks at all, or one missing), and
\* a chunk for no result
ChunkLists(n) ==
    {ChunkList(n, f, g) : f \in {0, 1}, g \in {0, 1}}
        \cup {ChunkList(m, 0, 0) : m \in {0, n - 1} \cap Nat}
        \cup (IF n = 0 THEN {ChunkList(1, 1, 0)} ELSE {})

\* results of one segment each that differ in their text (the text of the
\* chunk, no text, the text inside white space, white space alone) or in
\* their metadata (no map, a key of the chunk, a key the merger sets itself,
\* the metadata of a result that was merged with speaker references before)
Str_Chunk(i) == <<"c", "h", "u", "n", "k", "-">> \o Itoa(i)
PlainTexts(i) ==
    <<Str_Chunk(i), <<>>, <<" ">> \o Str_Chunk(i) \o <<"\n">>, <<" ">>>>
PlainMetadata(i) ==
    <<[nil |-> TRUE, kv |-> EmptyMap],
      [nil |-> FALSE, kv |-> ("job" :> ToString(i))],
      [nil |-> FALSE, kv |-> ("job" :> ToString(i)) @@ ("chunks_processed" :> "9")],
      [nil |-> FALSE,
       kv |-> ("speaker_references_used" :> "true") @@ ("chunks_processed" :> "2")]>>
PlainResult(i, text, metadata) ==
    [TranscriptResult(i, <<Seg(0, 1, PtrTo(Str_A))>>, <<>>)
        EXCEPT !.Text = text, !.Metadata = metadata]
\* variant 0 of a result is the nil pointer
PlainResultLists ==
    UNION {{[k \in 1..n |-> IF v[k] = 0 THEN NilPtr
                            ELSE PlainResult(k - 1, PlainTexts(k - 1)[v[k]],
                                             PlainMetadata(k - 1)[1])] :
                v \in [1..n -> 0..4]}
             \cup {[k \in 1..n |-> PlainResult(k - 1, Str_Chunk(k - 1),
                                               PlainMetadata(k - 1)[v[k]])] :
                      v \in [1..n -> 1..4]} :
           n \in 2..MaxPlain}

MergeIdle ==
    /\ mrgResults = <<>>
    /\ mrgChunks = <<>>
    /\ mrgRefsUsed = FALSE
    /\ mrgPc = "off"
    /\ mrgOut = NilPtr
    /\ mrgSame = FALSE

MergeInit ==
    /\ \/ \E n \in 0..MaxResults :
             /\ mrgResults \in ResultLists(0, n, MaxItems)
             /\ mrgChunks \in ChunkLists(n)
       \/ /\ mrgResults \in PlainResultLists
          /\ mrgChunks = ChunkList(Len(mrgResults), 0, 0)
    /\ mrgRefsUsed \in BOOLEAN
    /\ mrgPc = "ready"
    /\ mrgOut = NilPtr
    /\ mrgSame = FALSE

DoMergeResults ==
    /\ mrgPc = "ready"
    /\ LET r == MergeResults(mrgResults, mrgChunks, mrgRefsUsed)
       IN  /\ mrgOut' = r.out
           /\ mrgSame' = r.same
    /\ mrgPc' = "returned"
    /\ UNCHANGED <<mrgResults, mrgChunks, mrgRefsUsed>>

-----------------------------------------------------------------------------
(* AI post-processor: ai_postprocessor.go, segment_merger.go *)

DefaultModel == "gpt-4o"
DefaultMaxSegmentsPerBatch == 50

Str_REMOVE == <<"[", "R", "E", "M", "O", "V", "E", "]">>

\* NewAITextPostprocessor that does not look at the API key
NewAITextPostprocessorNoKey(apiKey, model, enabled) ==
    [llmService |-> enabled,
     model |-> IF model = "" THEN DefaultModel ELSE model,
     maxSegmentsPerBatch |-> DefaultMaxSegmentsPerBatch,
     enabled |-> enabled]

\* NewAITextPostprocessor; llmService is whether the pointer is non-nil
NewAITextPostprocessor(apiKey, model, enabled) ==
    [llmService |-> (enabled /\ apiKey # ""),
     model |-> IF model = "" THEN DefaultModel ELSE model,
     maxSegmentsPerBatch |-> DefaultMaxSegmentsPerBatch,
     enabled |-> (enabled /\ apiKey # "")]

CleanedSegment(text, speaker, start, end, mergeWithNext) ==
    [Text |-> text, Speaker |-> speaker, Start |-> start, End |-> end,
     MergeWithNext |-> mergeWithNext]

\* a TranscriptSegment in the LLM-exchange form (processBatch's input, and
\* the fallback of ProcessTranscript)
ToCleaned(seg) ==
    CleanedSegment(seg.Text,
                   IF seg.Speaker # NilStr THEN seg.Speaker[1] ELSE <<>>,
                   seg.Start, seg.End, FALSE)

\* splitIntoBatches
RECURSIVE batchesFrom(_, _, _)
batchesFrom(segments, i, size) ==
    IF i >= Len(segments) THEN <<>>
    ELSE LET end == IF i + size > Len(segments) THEN Len(segments) ELSE i + size
         IN  <<SubSeq(segments, i + 1, end)>> \o batchesFrom(segments, end, size)

\* batches of one segment more than maxSegmentsPerBatch
splitIntoBatchesWide(p, segments) ==
    batchesFrom(segments, 0, p.maxSegmentsPerBatch + 1)

splitIntoBatches(p, segments) ==
    IF Len(segments) <= p.maxSegmentsPerBatch THEN <<segments>>
    ELSE batchesFrom(segments, 0, p.maxSegmentsPerBatch)

\* mapPremergedSegments
mapPremergedSegments(llmSegments, originalSegments) ==
    IF Len(llmSegments) = 0 THEN originalSegments ELSE llmSegments

(* The content of an LLM message is a sequence of tokens: pieces of literal
   text and JSON documents.  A JSON document is kept as what it denotes:
   json is "segments" for an array of segment objects, "null" for the JSON
   null, "object" for a single object, "numbers" for an array of numbers. *)
Lit(text) == [lit |-> text]
Doc(json, segments) == [json |-> json, segments |-> segments]
\* the three backquotes of a markdown fence
Fence == Lit("<fence>")
IsDoc(token) == "json" \in DOMAIN token
IsSpaceToken(token) == token \in {Lit(" "), Lit("\t"), Lit("\n"), Lit("\r")}

\* strings.TrimSuffix
TrimSuffix(s, suffix) ==
    IF Len(s) >= Len(suffix) /\ SubSeq(s, Len(s) - Len(suffix) + 1, Len(s)) = suffix
    THEN SubSeq(s, 1, Len(s) - Len(suffix)) ELSE s

\* strings.TrimSpace of a content
RECURSIVE TrimSpaceContent(_)
TrimSpaceContent(content) ==
    IF content # <<>> /\ IsSpaceToken(Head(content)) THEN TrimSpaceContent(Tail(content))
    ELSE IF content # <<>> /\ IsSpaceToken(Last(content))
    THEN TrimSpaceContent(SubSeq(content, 1, Len(content) - 1))
    ELSE content

\* json.Unmarshal([]byte(content), &segments) for segments []CleanedSegment:
\* one array of segment objects, or null, which leaves the slice nil; white
\* space around the document is skipped
Unmarshal(content) ==
    LET text == TrimSpaceContent(content)
    IN  IF Len(text) = 1 /\ IsDoc(text[1]) /\ text[1].json = "segments"
        THEN [err |-> "", segments |-> text[1].segments]
        ELSE IF Len(text) = 1 /\ IsDoc(text[1]) /\ text[1].json = "null"
        THEN [err |-> "", segments |-> <<>>]
        ELSE [err |-> "json: cannot unmarshal", segments |-> <<>>]

\* the fence stripping without the fence that names json
stripFencesPlain(content) ==
    TrimSpaceContent(TrimSuffix(TrimPrefix(content, <<Fence>>), <<Fence>>))

\* the fence stripping of parseCleanupResponse
stripFences(content) ==
    TrimSpaceContent(TrimSuffix(TrimPrefix(TrimPrefix(content, <<Fence, Lit("json")>>),
                                           <<Fence>>),
                                <<Fence>>))

\* parseCleanupResponse without the check of the segment count
parseCleanupResponseNoCount(content, originalSegments) ==
    LET parsed == Unmarshal(stripFences(content))
    IN  IF parsed.err # ""
        THEN [err |-> "invalid JSON: " \o parsed.err, segments |-> <<>>]
        ELSE [err |-> "", segments |-> parsed.segments]

\* parseCleanupResponse
\* parseCleanupResponse once json.Unmarshal has returned
afterUnmarshal(parsed, originalSegments) ==
    IF parsed.err # ""
    THEN [err |-> "invalid JSON: " \o parsed.err, segments |-> <<>>]
    ELSE IF Len(parsed.segments) > Len(originalSegments)
    THEN [err |-> "segment count increased: expected <= "
                    \o ToString(Len(originalSegments)) \o ", got "
                    \o ToString(Len(parsed.segments)),
          segments |-> <<>>]
    ELSE IF Len(parsed.segments) = Len(originalSegments)
    THEN [err |-> "", segments |-> parsed.segments]
    ELSE [err |-> "",
          segments |-> mapPremergedSegments(parsed.segments, originalSegments)]

parseCleanupResponse(content, originalSegments) ==
    afterUnmarshal(Unmarshal(stripFences(content)), originalSegments)

\* processBatch, given what ChatCompletion answers
processBatch(segments, resp) ==
    LET inputSegments == [i \in 1..Len(segments) |-> ToCleaned(segments[i])]
        content == TrimSpaceContent(resp.content)
        parsed == parseCleanupResponse(content, inputSegments)
    IN  IF resp.kind = "error"
        THEN [err |-> "LLM request failed", cleaned |-> <<>>]
        ELSE IF resp.kind = "nochoices"
        THEN [err |-> "empty response from LLM", cleaned |-> <<>>]
        ELSE IF parsed.err # ""
        THEN [err |-> "failed to parse LLM response: " \o parsed.err, cleaned |-> <<>>]
        ELSE [err |-> "", cleaned |-> parsed.segments]

\* concatenateTexts: the texts one after the other, nothing between them
concatenateTexts(texts) == Join(texts, <<>>)

\* mergeSegmentRange taking the speaker of the last segment
mergeSegmentRangeLastSpeaker(segments, startIdx, endIdx) ==
    LET spoken == SelectSeq(SubSeq(segments, startIdx, endIdx),
                            LAMBDA s : s.Text # Str_REMOVE)
        texts == [k \in 1..Len(spoken) |-> spoken[k].Text]
    IN  IF startIdx > endIdx \/ startIdx > Len(segments) THEN NilPtr
        ELSE IF Len(texts) = 0 THEN NilPtr
        ELSE [nil |-> FALSE,
              Text |-> concatenateTexts(texts),
              Speaker |-> PtrTo(segments[endIdx].Speaker),
              Start |-> segments[startIdx].Start,
              End |-> segments[endIdx].End,
              Language |-> ""]

\* mergeSegmentRange, with indices from 1; the result is a pointer
mergeSegmentRange(segments, startIdx, endIdx) ==
    LET spoken == SelectSeq(SubSeq(segments, startIdx, endIdx),
                            LAMBDA s : s.Text # Str_REMOVE)
        texts == [k \in 1..Len(spoken) |-> spoken[k].Text]
    IN  IF startIdx > endIdx \/ startIdx > Len(segments) THEN NilPtr
        ELSE IF Len(texts) = 0 THEN NilPtr
        ELSE [nil |-> FALSE,
              Text |-> concatenateTexts(texts),
              Speaker |-> PtrTo(segments[startIdx].Speaker),
              Start |-> segments[startIdx].Start,
              End |-> segments[endIdx].End,
              Language |-> ""]

\* the inner loop of ApplyMerges: where mergeEnd stops, from i on
chainEnd(cleaned, i) ==
    CHOOSE mergeEnd \in i..Len(cleaned) :
        /\ ~(mergeEnd < Len(cleaned) /\ cleaned[mergeEnd].MergeWithNext)
        /\ \A e \in i..(mergeEnd - 1) : e < Len(cleaned) /\ cleaned[e].MergeWithNext

\* one round of the outer loop of ApplyMerges, with indices from 1.  st.i is
\* the loop index and st.result the segments so far; st.from keeps, for each
\* of them, the index its range began at.
applyMergesBody(cleaned, st) ==
    LET i == st.i
        seg == cleaned[i]
        mergeEnd == chainEnd(cleaned, i)
        merged == mergeSegmentRange(cleaned, i, mergeEnd)
    IN  IF seg.Text = Str_REMOVE THEN [st EXCEPT !.i = i + 1]
        ELSE IF mergeEnd > i
        THEN IF ~merged.nil
             THEN [i |-> mergeEnd + 1,
                   result |-> Append(st.result,
                                     [Text |-> merged.Text, Speaker |-> merged.Speaker,
                                      Start |-> merged.Start, End |-> merged.End,
                                      Language |-> merged.Language]),
                   from |-> Append(st.from, i)]
             ELSE [st EXCEPT !.i = mergeEnd + 1]
        ELSE [i |-> i + 1,
              result |-> Append(st.result,
                                [Text |-> seg.Text, Speaker |-> PtrTo(seg.Speaker),
                                 Start |-> seg.Start, End |-> seg.End, Language |-> ""]),
              from |-> Append(st.from, i)]

\* the outer loop of ApplyMerges over the positions lo..hi: a position the
\* loop index is not at lies inside a range already merged
RECURSIVE applyMergesLoop(_, _, _, _)
applyMergesLoop(cleaned, st, lo, hi) ==
    IF lo > hi THEN st
    ELSE IF lo = hi THEN (IF st.i = lo THEN applyMergesBody(cleaned, st) ELSE st)
    ELSE LET mid == (lo + hi) \div 2
             left == applyMergesLoop(cleaned, st, lo, mid)
         IN  IF left.i > hi THEN left
             ELSE applyMergesLoop(cleaned, left, mid + 1, hi)

applyMergesRun(cleaned) ==
    applyMergesLoop(cleaned, [i |-> 1, result |-> <<>>, from |-> <<>>], 1, Len(cleaned))

\* ApplyMerges
ApplyMerges(cleaned) == applyMergesRun(cleaned).result

\* MergeWordSegments: a word takes the speaker of the first merged segment
\* that contains it
MergeWordSegments(words, originalSegments, mergedSegments) ==
    IF Len(words) = 0 \/ Len(mergedSegments) = 0 THEN words
    ELSE [w \in 1..Len(words) |->
            LET hits == {k \in 1..Len(mergedSegments) :
                            /\ words[w].Start >= mergedSegments[k].Start
                            /\ words[w].End <= mergedSegments[k].End}
            IN  IF hits = {} THEN words[w]
                ELSE [words[w] EXCEPT !.Speaker =
                        mergedSegments[CHOOSE k \in hits : \A h \in hits : k <= h].Speaker]]

\* rebuildFullText leaving out the empty texts only
rebuildFullTextKeepRemove(segments) ==
    LET kept == SelectSeq(segments, LAMBDA s : s.Text # <<>>)
    IN  Join([k \in 1..Len(kept) |-> kept[k].Text], <<" ">>)

\* rebuildFullText
rebuildFullText(segments) ==
    LET kept == SelectSeq(segments, LAMBDA s : s.Text # <<>> /\ s.Text # Str_REMOVE)
    IN  Join([k \in 1..Len(kept) |-> kept[k].Text], <<" ">>)

\* the loop of ProcessTranscript over the batches: what each batch adds to
\* allCleaned, with the error that sent it to the fallback
batchLog(batches, responses) ==
    [b \in 1..Len(batches) |->
        LET r == processBatch(batches[b], responses[b])
        IN  IF r.err # ""
            THEN [err |-> r.err,
                  cleaned |-> [i \in 1..Len(batches[b]) |-> ToCleaned(batches[b][i])]]
            ELSE [err |-> "", cleaned |-> r.cleaned]]

RECURSIVE Flatten(_)
Flatten(lists) == IF lists = <<>> THEN <<>> ELSE Head(lists) \o Flatten(Tail(lists))

NilMap == [nil |-> TRUE, kv |-> EmptyMap]

\* ProcessTranscript, given what ChatCompletion answers for each batch.
\* after is the caller's result once the call is over: the new result shares
\* the Metadata map of the input when that map is not nil.
markedMetadata(p, result) ==
    [nil |-> FALSE,
     kv |-> ("ai_postprocessed" :> "true") @@ ("postprocessor_model" :> p.model)
            @@ result.Metadata.kv]

\* the result ProcessTranscript builds from the merged segments
processedResult(p, result, mergedSegments) ==
    [nil |-> FALSE,
     Text |-> rebuildFullText(mergedSegments),
     Language |-> result.Language,
     Segments |-> mergedSegments,
     WordSegments |-> MergeWordSegments(result.WordSegments, result.Segments,
                                        mergedSegments),
     Confidence |-> result.Confidence,
     ProcessingTime |-> result.ProcessingTime,
     ModelUsed |-> result.ModelUsed,
     Metadata |-> markedMetadata(p, result)]

\* ProcessTranscript once the loop over the batches has filled allCleaned
afterBatches(p, result, batches, log) ==
    [out |-> processedResult(p, result,
                             ApplyMerges(Flatten([b \in 1..Len(log) |-> log[b].cleaned]))),
     same |-> FALSE,
     err |-> "",
     after |-> IF result.Metadata.nil THEN result
               ELSE [result EXCEPT !.Metadata = markedMetadata(p, result)],
     calls |-> Len(batches),
     log |-> log]

\* the return of ProcessTranscript that hands the input back
untouched(result) ==
    [out |-> result, same |-> TRUE, err |-> "", after |-> result, calls |-> 0,
     log |-> <<>>]

ProcessTranscript(p, result, responses) ==
    IF ~p.enabled \/ ~p.llmService THEN untouched(result)
    ELSE IF Len(result.Segments) = 0 THEN untouched(result)
    ELSE afterBatches(p, result, splitIntoBatches(p, result.Segments),
                      batchLog(splitIntoBatches(p, result.Segments), responses))

(* The inputs of ProcessTranscript and the answers of the LLM *)

\* the k-th input segment: one tick long, starting at k - 1
InSeg(k, speaker) ==
    [Start |-> k - 1, End |-> k, Text |-> <<"i">>, Speaker |-> speaker, Language |-> "en"]

PostResult(segs, words, metadata) ==
    [nil |-> FALSE, Text |-> IF segs = <<>> THEN <<>> ELSE <<"i">>, Language |-> "en",
     Segments |-> segs,
     WordSegments |-> words, Confidence |-> 1, ProcessingTime |-> 1,
     ModelUsed |-> "whisper-1", Metadata |-> metadata]

\* short results whose speakers vary; a short result with words and
\* metadata; results of one full batch, of two batches and of three
PostInputs ==
    {PostResult([k \in 1..n |-> InSeg(k, sp[k])], <<>>, NilMap) :
        n \in 0..MaxIn, sp \in [1..MaxIn -> {NilStr, PtrTo(Str_A)}]}
    \cup {PostResult(<<InSeg(1, PtrTo(Str_A))>>, <<Word(0, 1, NilStr)>>, md) :
            md \in {NilMap, [nil |-> FALSE, kv |-> ("job" :> "j1")]}}
    \cup {PostResult([k \in 1..n |-> InSeg(k, PtrTo(Str_A))], <<>>, NilMap) :
            n \in {DefaultMaxSegmentsPerBatch, DefaultMaxSegmentsPerBatch + 1,
                   2 * DefaultMaxSegmentsPerBatch + 1}}

\* what the LLM may make of the input segment at position k of n
LLMVariants == {"clean", "merge", "remove", "removeMerge", "otherSpeaker", "shifted", "span"}
LLMSegment(batch, k, v) ==
    LET n == Len(batch)
        src == ToCleaned(batch[IF k > n THEN n ELSE k])
    IN  CleanedSegment(
            IF v \in {"remove", "removeMerge"} THEN Str_REMOVE ELSE <<"o">>,
            IF v = "otherSpeaker" THEN <<"B">> ELSE src.Speaker,
            IF v = "shifted" THEN src.Start + 1
            ELSE IF v = "span" THEN batch[1].Start ELSE src.Start,
            IF v = "shifted" THEN src.End + 1
            ELSE IF v = "span" THEN batch[n].End ELSE src.End,
            v \in {"merge", "removeMerge"})

\* arrays that follow the batch: as many segments, one less, one more, and
\* one segment that spans the batch
EchoArrays(batch) ==
    {[k \in 1..Len(batch) |-> LLMSegment(batch, k, v)] : v \in {"clean", "merge", "shifted"}}
    \cup {[k \in 1..m |-> LLMSegment(batch, k, "clean")] :
            m \in {Len(batch) - 1, Len(batch) + 1}}
    \cup {<<LLMSegment(batch, 1, "span")>>}

\* the arrays the LLM may answer for a batch: every short array for a batch
\* of a short result, the arrays that follow the batch for a long result
LLMArrays(batch, short) ==
    IF short
    THEN {[k \in 1..Len(vs) |-> LLMSegment(batch, k, vs[k])] :
            vs \in SeqsUpTo(LLMVariants, MaxLLM)}
    ELSE EchoArrays(batch)

\* the ways a document comes wrapped: bare, inside a fence with or without
\* the word json, with the fence left open, after a sentence, and with a
\* space between the fence and the word json
Layouts(doc) ==
    {<<doc>>,
     <<Lit("\n"), doc, Lit("\n")>>,
     <<Fence, Lit("json"), Lit("\n"), doc, Lit("\n"), Fence>>,
     <<Fence, Lit("\n"), doc, Lit("\n"), Fence, Lit("\n")>>,
     <<Fence, Lit("json"), Lit("\n"), doc>>,
     <<Lit("Here is the result:"), Lit("\n"), doc>>,
     <<Fence, Lit(" "), Lit("json"), Lit("\n"), doc, Lit("\n"), Fence>>}

\* documents that are no array of segments
OtherDocs == {Doc("null", <<>>), Doc("object", <<>>), Doc("numbers", <<>>)}

\* contents with no document in them
NoDocContents == {<<>>, <<Lit("Sorry, I cannot do that.")>>, <<Fence, Fence>>}

\* what ChatCompletion may answer: an error, no choice, an array of segments,
\* the echo of the batch in every wrapping, and contents that hold no array
LLMResponses(batch, short) ==
    {[kind |-> "error", content |-> <<>>],
     [kind |-> "nochoices", content |-> <<>>]}
    \cup {[kind |-> "content", content |-> <<Doc("segments", a)>>] :
            a \in LLMArrays(batch, short)}
    \cup {[kind |-> "content", content |-> c] :
            c \in Layouts(Doc("segments", [k \in 1..Len(batch) |->
                                              LLMSegment(batch, k, "clean")]))}
    \cup (IF short
          THEN {[kind |-> "content", content |-> c] :
                  c \in NoDocContents \cup UNION {Layouts(d) : d \in OtherDocs}}
          ELSE {[kind |-> "content", content |-> <<Lit("Sorry, I cannot do that.")>>]})

\* one answer for each batch
RECURSIVE ResponseLists(_, _, _)
ResponseLists(batches, b, short) ==
    IF b > Len(batches) THEN {<<>>}
    ELSE {<<r>> \o rest : r \in LLMResponses(batches[b], short),
                          rest \in ResponseLists(batches, b + 1, short)}

\* the batches ProcessTranscript sends to the LLM
BatchesSent(p, result) ==
    IF ~p.enabled \/ ~p.llmService \/ Len(result.Segments) = 0 THEN <<>>
    ELSE splitIntoBatches(p, result.Segments)

PostConfigs ==
    [apiKey : {"", "sk-key"}, model : {"", "gpt-4o-mini"}, enabled : BOOLEAN]

PostIdle ==
    /\ ptConfig = [apiKey |-> "", model |-> "", enabled |-> FALSE]
    /\ ptProc = NewAITextPostprocessor("", "", FALSE)
    /\ ptInput = PostResult(<<>>, <<>>, NilMap)
    /\ ptAfter = PostResult(<<>>, <<>>, NilMap)
    /\ ptPc = "off"
    /\ ptOut = NilPtr
    /\ ptSame = FALSE
    /\ ptErr = ""
    /\ ptCalls = 0
    /\ ptLog = <<>>

PostInit ==
    /\ ptConfig \in PostConfigs
    /\ ptProc = NewAITextPostprocessor(ptConfig.apiKey, ptConfig.model, ptConfig.enabled)
    /\ ptInput \in PostInputs
    /\ ptAfter = ptInput
    /\ ptPc = "ready"
    /\ ptOut = NilPtr
    /\ ptSame = FALSE
    /\ ptErr = ""
    /\ ptCalls = 0
    /\ ptLog = <<>>

\* the return of ProcessTranscript
returnFrom(r) ==
    /\ ptOut' = r.out
    /\ ptSame' = r.same
    /\ ptErr' = r.err
    /\ ptAfter' = r.after
    /\ ptCalls' = r.calls
    /\ ptLog' = r.log

DoProcessTranscript ==
    /\ ptPc = "ready"
    /\ \E responses \in ResponseLists(BatchesSent(ptProc, ptInput), 1,
                                        Len(ptInput.Segments) <= MaxIn) :
         returnFrom(ProcessTranscript(ptProc, ptInput, responses))
    /\ ptPc' = "returned"
    /\ UNCHANGED <<ptConfig, ptProc, ptInput>>

-----------------------------------------------------------------------------
(* Speaker samples: speaker_samples.go *)

\* MinSampleDurationSec = 2.0 and MaxSampleDurationSec = 10.0, in ticks
MinSampleDurationSec == 2 * TicksPerSec
MaxSampleDurationSec == 10 * TicksPerSec

DurationOf(seg) == seg.End - seg.Start

\* the pointer to a segment
PtrToSeg(seg) ==
    [nil |-> FALSE, Start |-> seg.Start, End |-> seg.End, Text |-> seg.Text,
     Speaker |-> seg.Speaker, Language |-> seg.Language]

\* up to 1 second between two segments, and less than 1 second
gapAllowedBelow(gap) == gap < 1 * TicksPerSec
gapAllowed(gap) == gap <= 1 * TicksPerSec

\* sort.Slice by start time, on segments whose start times differ
RECURSIVE sortByStart(_)
sortByStart(segments) ==
    IF segments = <<>> THEN <<>>
    ELSE LET first == CHOOSE i \in 1..Len(segments) :
                        \A j \in 1..Len(segments) :
                            \/ segments[i].Start < segments[j].Start
                            \/ segments[i].Start = segments[j].Start /\ i <= j
         IN  <<segments[first]>>
                \o sortByStart([k \in 1..(Len(segments) - 1) |->
                                  segments[IF k < first THEN k ELSE k + 1]])

\* the interval concatenateSegments returns, trimmed to the longest sample
concatenated(sorted, start, end) ==
    [nil |-> FALSE, Start |-> start,
     End |-> IF end - start > MaxSampleDurationSec THEN start + MaxSampleDurationSec
             ELSE end,
     Text |-> <<>>, Speaker |-> sorted[1].Speaker, Language |-> ""]

\* the loop of concatenateSegments from index i on (i counts from 1)
RECURSIVE concatenateFrom(_, _, _, _)
concatenateFrom(sorted, i, start, end) ==
    IF i > Len(sorted)
    THEN IF end - start >= MinSampleDurationSec THEN concatenated(sorted, start, end)
         ELSE NilPtr
    ELSE IF gapAllowed(sorted[i].Start - end)
    THEN IF sorted[i].End - start >= MinSampleDurationSec
         THEN concatenated(sorted, start, sorted[i].End)
         ELSE concatenateFrom(sorted, i + 1, start, sorted[i].End)
    ELSE concatenateFrom(sorted, i + 1, sorted[i].Start, sorted[i].End)

concatenateSegmentsSorted(sorted) ==
    concatenateFrom(sorted, 2, sorted[1].Start, sorted[1].End)

concatenateSegments(segments) ==
    IF Len(segments) = 0 THEN NilPtr
    ELSE concatenateSegmentsSorted(sortByStart(segments))

\* the segments that sort.Slice by descending duration may put first among
\* those of the set: the sort is not stable, so any longest one
LongestOf(segments, among) ==
    {i \in among : \A j \in among : DurationOf(segments[j]) <= DurationOf(segments[i])}

\* selectBestSegment: the pointers it may return
selectBestSegment(segments) ==
    LET all == 1..Len(segments)
        ideal == {i \in all : /\ DurationOf(segments[i]) >= MinSampleDurationSec
                              /\ DurationOf(segments[i]) <= MaxSampleDurationSec}
    IN  IF Len(segments) = 0 THEN {NilPtr}
        ELSE IF ideal # {} THEN {PtrToSeg(segments[i]) : i \in LongestOf(segments, ideal)}
        ELSE IF \E i \in all : DurationOf(segments[i]) >= MinSampleDurationSec
        THEN {PtrToSeg([segments[i] EXCEPT !.End =
                          IF DurationOf(segments[i]) > MaxSampleDurationSec
                          THEN segments[i].Start + MaxSampleDurationSec ELSE @]) :
                i \in LongestOf(segments, all)}
        ELSE {concatenateSegments(segments)}

\* groupSegmentsBySpeaker: the labels, and the segments of a label in order
SpeakersOf(segments) ==
    {segments[k].Speaker[1] :
        k \in {j \in 1..Len(segments) :
                  segments[j].Speaker # NilStr /\ segments[j].Speaker[1] # <<>>}}
groupSegmentsBySpeaker(segments) ==
    [speaker \in SpeakersOf(segments) |->
        SelectSeq(segments, LAMBDA seg : seg.Speaker = PtrTo(speaker))]

\* filepath.Join(outputDir, "speaker_<label>.mp3")
SamplePath(speaker) == [dir |-> "speaker_samples", speaker |-> speaker]

\* how extractBestSample goes for a speaker with a segment to cut: ffmpeg
\* fails and leaves no file, ffmpeg fails and leaves the part of the file it
\* wrote, ffmpeg writes the file and os.ReadFile fails, both succeed
CutOutcomes == {"ffmpeg failed", "ffmpeg failed midway", "read failed", "ok"}

\* extractBestSample: the sample and the error returned, and whether the
\* clip file is on disk afterwards
extractBestSample(speaker, seg, outcome) ==
    IF seg.nil THEN [sample |-> NilPtr, err |-> "", file |-> FALSE]
    ELSE IF outcome = "ffmpeg failed"
    THEN [sample |-> NilPtr, err |-> "extract audio: ffmpeg", file |-> FALSE]
    ELSE IF outcome = "ffmpeg failed midway"
    THEN [sample |-> NilPtr, err |-> "extract audio: ffmpeg", file |-> TRUE]
    ELSE IF outcome = "read failed"
    THEN [sample |-> NilPtr, err |-> "encode base64", file |-> TRUE]
    ELSE [sample |-> [nil |-> FALSE, Speaker |-> speaker, StartTime |-> seg.Start,
                      EndTime |-> seg.End, FilePath |-> SamplePath(speaker),
                      Base64Data |-> <<"data:audio/mp3;base64,", SamplePath(speaker)>>],
          err |-> "", file |-> TRUE]

\* the loop of ExtractSpeakerSamples over the speakers in the order the map
\* gives them; acc holds the samples, the clip files and the log so far
RECURSIVE extractLoop(_, _, _, _, _)
extractLoop(order, k, pick, outcome, acc) ==
    IF k > Len(order) THEN acc
    ELSE extractLoop(order, k + 1, pick, outcome,
            LET r == extractBestSample(order[k], pick[order[k]], outcome[order[k]])
            IN  [samples |-> IF r.err = "" /\ ~r.sample.nil
                             THEN Append(acc.samples, r.sample) ELSE acc.samples,
                 clips |-> IF r.file THEN acc.clips \cup {order[k]} ELSE acc.clips,
                 log |-> Append(acc.log, [speaker |-> order[k], err |-> r.err,
                                          file |-> r.file,
                                          cut |-> ~pick[order[k]].nil])])

Orders(S) == {order \in [1..Cardinality(S) -> S] :
                \A a, b \in 1..Cardinality(S) : a # b => order[a] # order[b]}

\* one speaker's segment lists
SampleSegmentPool ==
    {[speaker |-> PtrTo(Str_A), d |-> MinSampleDurationSec - 1],
     [speaker |-> PtrTo(Str_A), d |-> MinSampleDurationSec],
     [speaker |-> PtrTo(<<"B">>), d |-> MinSampleDurationSec],
     [speaker |-> NilStr, d |-> MinSampleDurationSec],
     [speaker |-> PtrTo(<<>>), d |-> MinSampleDurationSec]}
RECURSIVE SampleInputs(_, _)
SampleInputs(n, from) ==
    IF n = 0 THEN {<<>>}
    ELSE {<<>>} \cup
         UNION {{<<[Start |-> from, End |-> from + c.d, Text |-> <<"t">>,
                   Speaker |-> c.speaker, Language |-> "en"]>> \o rest :
                    rest \in SampleInputs(n - 1, from + c.d)} :
                c \in SampleSegmentPool}

SamplesIdle ==
    /\ smpResult = NilPtr
    /\ smpPc = "off"
    /\ smpSamples = <<>>
    /\ smpErr = ""
    /\ smpDir = FALSE
    /\ smpClips = {}
    /\ smpLog = <<>>

SamplesInit ==
    /\ smpResult \in {NilPtr}
                      \cup {[nil |-> FALSE, Segments |-> segs] :
                               segs \in SampleInputs(MaxSpeakerSegs, 0)}
    /\ smpPc = "ready"
    /\ smpSamples = <<>>
    /\ smpErr = ""
    /\ smpDir = FALSE
    /\ smpClips = {}
    /\ smpLog = <<>>

\* the return of ExtractSpeakerSamples
extracted(samples, err, dir, clips, log) ==
    /\ smpSamples' = samples
    /\ smpErr' = err
    /\ smpDir' = dir
    /\ smpClips' = clips
    /\ smpLog' = log

\* the return of ExtractSpeakerSamples after the loop
returnedFrom(acc) == extracted(acc.samples, "", TRUE, acc.clips, acc.log)

\* ExtractSpeakerSamples past the early returns
extractAll(speakerSegments) ==
    \E mkdirOK \in BOOLEAN :
        IF ~mkdirOK THEN extracted(<<>>, "create sample directory", FALSE, {}, <<>>)
        ELSE \E order \in Orders(DOMAIN speakerSegments),
                outcome \in [DOMAIN speakerSegments -> CutOutcomes] :
               \E pick \in {f \in [DOMAIN speakerSegments ->
                                     UNION {selectBestSegment(speakerSegments[sp]) :
                                               sp \in DOMAIN speakerSegments}] :
                               \A sp \in DOMAIN speakerSegments :
                                   f[sp] \in selectBestSegment(speakerSegments[sp])} :
                  returnedFrom(extractLoop(order, 1, pick, outcome,
                                           [samples |-> <<>>, clips |-> {},
                                            log |-> <<>>]))

ExtractSpeakerSamples ==
    /\ smpPc = "ready"
    /\ IF smpResult.nil THEN extracted(<<>>, "", FALSE, {}, <<>>)
       ELSE IF Len(smpResult.Segments) = 0 THEN extracted(<<>>, "", FALSE, {}, <<>>)
       ELSE IF SpeakersOf(smpResult.Segments) = {}
       THEN extracted(<<>>, "", FALSE, {}, <<>>)
       ELSE extractAll(groupSegmentsBySpeaker(smpResult.Segments))
    /\ smpPc' = "extracted"
    /\ UNCHANGED smpResult

\* CleanupSpeakerSamples on the samples that were returned
CleanupSpeakerSamples ==
    /\ smpPc = "extracted"
    /\ smpClips' = smpClips \ {smpSamples[k].FilePath.speaker : k \in 1..Len(smpSamples)}
    /\ smpPc' = "cleaned"
    /\ UNCHANGED <<smpResult, smpSamples, smpErr, smpDir, smpLog>>

-----------------------------------------------------------------------------
(* OpenAI adapter: the form fields and the response branch of Transcribe *)

Str_gpt4o == <<"g", "p", "t", "-", "4", "o">>
Str_whisper == <<"w", "h", "i", "s", "p", "e", "r">>
Str_whisper1 == Str_whisper \o <<"-", "1">>
Str_mini == <<"-", "m", "i", "n", "i">>
Str_transcribe == <<"-", "t", "r", "a", "n", "s", "c", "r", "i", "b", "e">>
Str_diarize == <<"d", "i", "a", "r", "i", "z", "e">>

\* the "model" parameter, whisper-1 when it is empty
modelOf(param) == IF param = <<>> THEN Str_whisper1 ELSE param

\* the form fields Transcribe writes besides file, model, language, prompt
\* and temperature: response_format, chunking_strategy ("" when not sent)
\* and the set of timestamp_granularities[]
formFields(model) ==
    IF HasPrefix(model, Str_gpt4o)
    THEN IF Contains(model, Str_diarize)
         THEN [response_format |-> "diarized_json", chunking_strategy |-> "auto",
               timestamp_granularities |-> {}]
         ELSE [response_format |-> "json", chunking_strategy |-> "",
               timestamp_granularities |-> {}]
    ELSE [response_format |-> "verbose_json", chunking_strategy |-> "",
          timestamp_granularities |->
              IF model = Str_whisper1 THEN {"word", "segment"} ELSE {}]

\* the branch Transcribe decodes the response body in
responseBranch(model) ==
    IF Contains(model, Str_diarize) THEN "diarized" ELSE "standard"

\* what one call of Transcribe sends and how it reads the answer
transcribeFormat(param) ==
    [model |-> modelOf(param),
     fields |-> formFields(modelOf(param)),
     branch |-> responseBranch(modelOf(param))]

\* the model parameters: none, the four options of the schema, and names
\* outside the schema, which Transcribe does not reject
ModelParams ==
    {<<>>,
     Str_whisper1,
     Str_gpt4o \o Str_transcribe,
     Str_gpt4o \o Str_mini \o Str_transcribe,
     Str_gpt4o \o Str_transcribe \o <<"-">> \o Str_diarize,
     Str_gpt4o,
     Str_whisper \o <<"-">> \o Str_diarize,
     Str_diarize \o <<"-">> \o Str_gpt4o,
     Str_whisper \o <<"-">> \o Str_gpt4o \o <<"-">> \o Str_diarize}

-----------------------------------------------------------------------------
(* The helper functions of the post-processor, called on their own *)

\* the segments the calls are made over, and the arrays parsed out of contents
BaseSegments == [k \in 1..MaxIn |-> InSeg(k, PtrTo(Str_A))]
ParseArrays ==
    {[k \in 1..Len(vs) |-> LLMSegment(BaseSegments, k, vs[k])] :
        vs \in SeqsUpTo({"clean", "shifted", "remove"}, MaxLLM)}

ParseCalls ==
    {[op |-> "parseCleanupResponse",
      arg |-> [content |-> c,
               originalSegments |-> [k \in 1..n |-> ToCleaned(BaseSegments[k])]]] :
        n \in 0..MaxIn,
        c \in NoDocContents
              \cup UNION {Layouts(d) : d \in OtherDocs}
              \cup UNION {Layouts(Doc("segments", a)) : a \in ParseArrays}}

\* splitIntoBatches on 1..MaxSplitLen segments, by the processor the
\* constructor builds
SplitCalls ==
    {[op |-> "splitIntoBatches",
      arg |-> [p |-> NewAITextPostprocessor("sk-key", "", TRUE),
               segments |-> [k \in 1..n |-> InSeg(k, PtrTo(Str_A))]]] :
        n \in 1..MaxSplitLen}

\* ApplyMerges on every cleaned list of up to MaxCleaned segments: segment k
\* runs from k-1 to k, odd positions speak A and even ones B, and the text
\* and the merge flag vary freely
MergeTexts == {<<"a">>, <<"b">>, Str_REMOVE}
MergeCalls ==
    {[op |-> "ApplyMerges",
      arg |-> [cleaned |->
                [k \in 1..Len(texts) |->
                    CleanedSegment(texts[k],
                                   IF k % 2 = 1 THEN <<"A">> ELSE <<"B">>,
                                   k - 1, k, k \in flagged)]]] :
        texts \in SeqsUpTo(MergeTexts, MaxCleaned),
        flagged \in SUBSET (1..MaxCleaned)}

\* rebuildFullText on merged segments: a text is a word, two words merged,
\* empty, or "[REMOVE]"
RebuildTexts == {<<"a">>, <<"b", "c">>, <<>>, Str_REMOVE}
RebuildCalls ==
    {[op |-> "rebuildFullText",
      arg |-> [segments |->
                [k \in 1..Len(texts) |->
                    [Text |-> texts[k], Speaker |-> PtrTo(<<"A">>),
                     Start |-> k - 1, End |-> k, Language |-> ""]]]] :
        texts \in SeqsUpTo(RebuildTexts, MaxCleaned)}

\* selectBestSegment on one speaker's segments, in the order of the
\* transcript: each begins after a gap behind the one before it
SampleDurations ==
    {1, MinSampleDurationSec - 1, MinSampleDurationSec, MaxSampleDurationSec,
     MaxSampleDurationSec + 1}
SampleGaps == {0, 1 * TicksPerSec, 1 * TicksPerSec + 1}
RECURSIVE SpeakerSegmentLists(_, _)
SpeakerSegmentLists(n, from) ==
    IF n = 0 THEN {<<>>}
    ELSE {<<>>} \cup
         UNION {{<<[Start |-> from + g, End |-> from + g + d, Text |-> <<"t">>,
                   Speaker |-> PtrTo(Str_A), Language |-> "en"]>> \o rest :
                    rest \in SpeakerSegmentLists(n - 1, from + g + d)} :
                g \in SampleGaps, d \in SampleDurations}
SelectCalls ==
    {[op |-> "selectBestSegment", arg |-> [segments |-> segments]] :
        segments \in SpeakerSegmentLists(MaxSpeakerSegs, 0)}

FormatCalls ==
    {[op |-> "Transcribe", arg |-> [model |-> m]] : m \in ModelParams}

FnCalls ==
    ParseCalls \cup SplitCalls \cup MergeCalls \cup RebuildCalls \cup SelectCalls
        \cup FormatCalls

FnIdle ==
    /\ fnOp = "none"
    /\ fnArg = <<>>
    /\ fnPc = "off"
    /\ fnRet = <<>>

FnInit ==
    /\ \E call \in FnCalls : fnOp = call.op /\ fnArg = call.arg
    /\ fnPc = "ready"
    /\ fnRet = <<>>

CallParseCleanupResponse ==
    /\ fnPc = "ready"
    /\ fnOp = "parseCleanupResponse"
    /\ fnRet' = parseCleanupResponse(fnArg.content, fnArg.originalSegments)
    /\ fnPc' = "returned"
    /\ UNCHANGED <<fnOp, fnArg>>

CallApplyMerges ==
    /\ fnPc = "ready"
    /\ fnOp = "ApplyMerges"
    /\ fnRet' = ApplyMerges(fnArg.cleaned)
    /\ fnPc' = "returned"
    /\ UNCHANGED <<fnOp, fnArg>>

CallRebuildFullText ==
    /\ fnPc = "ready"
    /\ fnOp = "rebuildFullText"
    /\ fnRet' = rebuildFullText(fnArg.segments)
    /\ fnPc' = "returned"
    /\ UNCHANGED <<fnOp, fnArg>>

CallSelectBestSegment ==
    /\ fnPc = "ready"
    /\ fnOp = "selectBestSegment"
    /\ fnRet' \in selectBestSegment(fnArg.segments)
    /\ fnPc' = "returned"
    /\ UNCHANGED <<fnOp, fnArg>>

CallTranscribeFormat ==
    /\ fnPc = "ready"
    /\ fnOp = "Transcribe"
    /\ fnRet' = transcribeFormat(fnArg.model)
    /\ fnPc' = "returned"
    /\ UNCHANGED <<fnOp, fnArg>>

CallSplitIntoBatches ==
    /\ fnPc = "ready"
    /\ fnOp = "splitIntoBatches"
    /\ fnRet' = splitIntoBatches(fnArg.p, fnArg.segments)
    /\ fnPc' = "returned"
    /\ UNCHANGED <<fnOp, fnArg>>

-----------------------------------------------------------------------------
(* OpenAI adapter: the retry loop of Transcribe, openai_adapter.go *)

maxRetries == 3
StatusOK == 200
TranscriptionsURL == "https://api.openai.com/v1/audio/transcriptions"

\* the backoff with attempt * 5 seconds
backoffLinear(attempt) == attempt * 5

\* backoff := time.Duration(attempt*attempt) * 5 * time.Second, in seconds
backoff(attempt) == attempt * attempt * 5

\* isRetryable
isRetryable(errStr) ==
    \/ Contains(errStr, "EOF")
    \/ Contains(errStr, "connection reset")
    \/ Contains(errStr, "timeout")
    \/ Contains(errStr, "connection refused")
    \/ Contains(errStr, "network is unreachable")
    \/ Contains(errStr, "broken pipe")
    \/ Contains(errStr, "connection closed")

\* the error of client.Do: a *url.Error around the cause
urlError(cause) == "Post \"" \o TranscriptionsURL \o "\": " \o cause

\* causes client.Do fails with while the context is live
TransportCauses ==
    {"EOF", "unexpected EOF", "read tcp: connection reset by peer", "dial tcp: i/o timeout",
     "dial tcp: connect: connection refused", "dial tcp: connect: network is unreachable",
     "write tcp: write: broken pipe", "http: server connection closed",
     "x509: certificate signed by unknown authority",
     "context deadline exceeded (Client.Timeout exceeded while awaiting headers)"}

CtxErrors == {"context canceled", "context deadline exceeded"}

\* HTTP responses: status and body
Responses ==
    [status : {200, 201, 400, 429, 500, 503}, body : {"{\"error\":\"overloaded\"}"}]
        \cup {[status |-> 500, body |-> ""]}

NoResp == [status |-> 0, body |-> "", attempt |-> 0]
NoRet == [returned |-> FALSE, result |-> NilPtr, err |-> ""]
NoCancel == [pc |-> "none", at |-> 0, wake |-> 0, sent |-> 0]
Return(result, err) == [returned |-> TRUE, result |-> result, err |-> err]

\* the status check without the body in the error
statusCheckNoBody(resp) ==
    IF resp.status # StatusOK
    THEN Return(NilPtr, "OpenAI API error (status " \o ToString(resp.status) \o ")")
    ELSE Return([nil |-> FALSE, body |-> resp.body], "")

\* the status check after the loop; the decoding of the body of a 200 is
\* left as the body itself
statusCheck(resp) ==
    IF resp.status # StatusOK
    THEN Return(NilPtr, "OpenAI API error (status " \o ToString(resp.status) \o "): "
                            \o resp.body)
    ELSE Return([nil |-> FALSE, body |-> resp.body], "")

\* the select of the backoff that waits for the timer only
selectReadyTimerOnly(ctxErr, clock, wake) == IF clock >= wake THEN {"timer"} ELSE {}

\* the cases of the select of the backoff that are ready
selectReady(ctxErr, clock, wake) ==
    (IF ctxErr # "" THEN {"ctx"} ELSE {}) \cup (IF clock >= wake THEN {"timer"} ELSE {})

AdIdle ==
    /\ adPc = "off"
    /\ adAttempt = 0
    /\ adOnWire = FALSE
    /\ adClock = 0
    /\ adWake = 0
    /\ adCtx = ""
    /\ adRet = NoRet
    /\ adSent = <<>>
    /\ adFails = <<>>
    /\ adResp = NoResp
    /\ adCancel = NoCancel
    /\ adDoneAt = 0

\* Transcribe is called, with a context that is live or already cancelled
AdInit ==
    /\ adPc = "start"
    /\ adAttempt = 0
    /\ adOnWire = FALSE
    /\ adClock = 0
    /\ adWake = 0
    /\ adCtx \in {""} \cup CtxErrors
    /\ adRet = NoRet
    /\ adSent = <<>>
    /\ adFails = <<>>
    /\ adResp = NoResp
    /\ adCancel = NoCancel
    /\ adDoneAt = 0

\* client.Do(req) is entered for the given attempt: the request leaves
\* unless the context of the request is done
EnterDo(attempt) ==
    /\ adPc' = "inflight"
    /\ adAttempt' = attempt
    /\ adOnWire' = (adCtx = "")
    /\ adSent' = IF adCtx = "" THEN Append(adSent, adClock) ELSE adSent

\* Transcribe returns
Finish(ret) ==
    /\ adPc' = "done"
    /\ adRet' = ret
    /\ adDoneAt' = adClock

\* Transcribe up to the first client.Do: the input is checked, the key
\* found, the file opened and the request built
BeginTranscribe ==
    /\ adPc = "start"
    /\ \E setup \in {"", "invalid audio input", "OpenAI API key is required but not provided",
                      "failed to open audio file"} :
         IF setup # ""
         THEN /\ Finish(Return(NilPtr, setup))
              /\ UNCHANGED <<adAttempt, adOnWire, adSent>>
         ELSE /\ EnterDo(1)
              /\ UNCHANGED <<adRet, adDoneAt>>
    /\ UNCHANGED <<adClock, adWake, adCtx, adFails, adResp, adCancel>>

\* client.Do returns an error: the rest of that round of the loop, up to
\* the return or the select of the backoff
DoFails ==
    /\ adPc = "inflight"
    /\ \E cause \in (IF adCtx # "" THEN {adCtx} ELSE {})
                      \cup (IF adOnWire THEN TransportCauses ELSE {}) :
         LET errStr == urlError(cause)
         IN  /\ adFails' = Append(adFails, [at |-> adClock, err |-> errStr,
                                             attempt |-> adAttempt])
             /\ IF ~isRetryable(errStr) \/ adAttempt = maxRetries
                THEN /\ Finish(Return(NilPtr, "request failed: " \o errStr))
                     /\ UNCHANGED adWake
                ELSE /\ adPc' = "backoff"
                     /\ adWake' = adClock + backoff(adAttempt)
                     /\ UNCHANGED <<adRet, adDoneAt>>
    /\ UNCHANGED <<adAttempt, adOnWire, adClock, adCtx, adSent, adResp, adCancel>>

\* client.Do returns a response: the loop is left, the status checked
DoResponds ==
    /\ adPc = "inflight"
    /\ adOnWire
    /\ \E resp \in Responses :
         /\ adResp' = [status |-> resp.status, body |-> resp.body, attempt |-> adAttempt]
         /\ Finish(statusCheck(resp))
    /\ UNCHANGED <<adAttempt, adOnWire, adClock, adWake, adCtx, adSent, adFails, adCancel>>

\* the select of the backoff takes a ready case: the context's error is
\* returned, or the request is built again (which may fail) and the next
\* round of the loop enters client.Do
BackoffSelect ==
    /\ adPc = "backoff"
    /\ \E case \in selectReady(adCtx, adClock, adWake) :
         IF case = "ctx"
         THEN /\ Finish(Return(NilPtr, adCtx))
              /\ UNCHANGED <<adAttempt, adOnWire, adSent>>
         ELSE \E rebuild \in {"", "failed to create form file on retry",
                                "failed to copy file content on retry"} :
                IF rebuild # ""
                THEN /\ Finish(Return(NilPtr, rebuild))
                     /\ UNCHANGED <<adAttempt, adOnWire, adSent>>
                ELSE /\ EnterDo(adAttempt + 1)
                     /\ UNCHANGED <<adRet, adDoneAt>>
    /\ UNCHANGED <<adClock, adWake, adCtx, adFails, adResp, adCancel>>

\* the caller's context is cancelled, or its deadline passes
CancelCtx ==
    /\ adPc \in {"inflight", "backoff"}
    /\ adCtx = ""
    /\ adCtx' \in CtxErrors
    /\ adCancel' = [pc |-> adPc, at |-> adClock, wake |-> adWake, sent |-> Len(adSent)]
    /\ UNCHANGED <<adPc, adAttempt, adOnWire, adClock, adWake, adRet, adSent, adFails,
                   adResp, adDoneAt>>

\* a second passes while Transcribe is blocked: in client.Do with the request
\* out, unanswered and the context live, or in the select with no case ready
Tick ==
    /\ adClock < AdMaxClock
    /\ \/ adPc = "inflight" /\ adOnWire /\ adCtx = "" /\ adClock - Last(adSent) < AdMaxFlight
       \/ adPc = "backoff" /\ selectReady(adCtx, adClock, adWake) = {}
    /\ adClock' = adClock + 1
    /\ UNCHANGED <<adPc, adAttempt, adOnWire, adWake, adCtx, adRet, adSent, adFails,
                   adResp, adCancel, adDoneAt>>

-----------------------------------------------------------------------------
(* Specifications *)

vars == <<splitVars, mergeVars, postVars, fnVars, adVars, sampleVars>>

\* Split on every input
SplitStep == Split \/ CleanupChunks
SplitNext == SplitStep /\ UNCHANGED <<mergeVars, postVars, fnVars, adVars, sampleVars>>
InitSplit == SplitInit /\ MergeIdle /\ PostIdle /\ FnIdle /\ AdIdle /\ SamplesIdle
SpecSplit == InitSplit /\ [][SplitNext]_vars

\* MergeResults on every argument list
MergeNext == DoMergeResults /\ UNCHANGED <<splitVars, postVars, fnVars, adVars, sampleVars>>
InitMerge == MergeInit /\ SplitIdle /\ PostIdle /\ FnIdle /\ AdIdle /\ SamplesIdle

\* ProcessTranscript on every result, whatever the LLM answers
PostNext == DoProcessTranscript /\ UNCHANGED <<splitVars, mergeVars, fnVars, adVars, sampleVars>>
InitPost == PostInit /\ SplitIdle /\ MergeIdle /\ FnIdle /\ AdIdle /\ SamplesIdle
SpecPost == InitPost /\ [][PostNext]_vars

\* each helper function on every argument
FnStep ==
    \/ CallParseCleanupResponse
    \/ CallSplitIntoBatches
    \/ CallApplyMerges
    \/ CallRebuildFullText
    \/ CallSelectBestSegment
    \/ CallTranscribeFormat
FnNext == FnStep /\ UNCHANGED <<splitVars, mergeVars, postVars, adVars, sampleVars>>
InitFn == FnInit /\ SplitIdle /\ MergeIdle /\ PostIdle /\ AdIdle /\ SamplesIdle
SpecFn == InitFn /\ [][FnNext]_vars

\* one call of Transcribe, the network, the clock and the caller's context
AdStep == BeginTranscribe \/ DoFails \/ DoResponds \/ BackoffSelect \/ CancelCtx \/ Tick
AdNext == AdStep /\ UNCHANGED <<splitVars, mergeVars, postVars, fnVars, sampleVars>>
InitAd == AdInit /\ SplitIdle /\ MergeIdle /\ PostIdle /\ FnIdle /\ SamplesIdle
SpecAd == InitAd /\ [][AdNext]_vars

\* the same, with the goroutine of Transcribe run whenever a case of its
\* select is ready
SpecAdFair ==
    SpecAd /\ WF_vars(BackoffSelect /\ UNCHANGED <<splitVars, mergeVars, postVars, fnVars, sampleVars>>)
SpecMerge == InitMerge /\ [][MergeNext]_vars

\* ExtractSpeakerSamples on every result, then CleanupSpeakerSamples on the
\* samples it returned
SamplesStep == ExtractSpeakerSamples \/ CleanupSpeakerSamples
SamplesNext ==
    SamplesStep /\ UNCHANGED <<splitVars, mergeVars, postVars, fnVars, adVars>>
InitSamples == SamplesInit /\ SplitIdle /\ MergeIdle /\ PostIdle /\ FnIdle /\ AdIdle
SpecSamples == InitSamples /\ [][SamplesNext]_vars

-----------------------------------------------------------------------------
(* Claims about the splitter, checked under SpecSplit *)

WithinLimits(input) ==
    /\ input.Size <= MaxFileSizeBytes
    /\ input.Duration <= Secs(MaxDurationMinutes * 60)

\* C1: Split takes the no-split path exactly when size <= 25 MB and
\* duration <= MaxDurationMinutes (both inclusive), and then returns exactly
\* one chunk with start 0, the input's path, index 0 and NeedsSplit false,
\* having created no file and no directory.
C1_NoSplitIffWithinLimits ==
    splPc = "returned" =>
        /\ (splPath = "nosplit") <=> WithinLimits(splInput)
        /\ splPath = "nosplit" =>
              /\ splErr = ""
              /\ ~splResult.nil
              /\ Len(splResult.Chunks) = 1
              /\ splResult.Chunks[1].StartTime = 0
              /\ splResult.Chunks[1].FilePath = splInput.FilePath
              /\ splResult.Chunks[1].OriginalIndex = 0
              /\ splResult.NeedsSplit = FALSE
              /\ splResult.OriginalPath = splInput.FilePath
              /\ splDir = FALSE
              /\ splDisk = {}

\* an input exactly at 25 MB and exactly at MaxDurationMinutes went through Split
C1_Witness ==
    /\ splPc = "returned"
    /\ splPath = "nosplit"
    /\ splInput.Size = MaxFileSizeBytes
    /\ splInput.Duration = Secs(MaxDurationMinutes * 60)

\* C2: in every SplitResult with at least 2 chunks, each chunk starts where
\* the chunk before it ends: start_time[i+1] = start_time[i] + duration[i].
C2_StartTimesContiguous ==
    (splPc = "returned" /\ ~splResult.nil /\ Len(splResult.Chunks) >= 2) =>
        \A i \in 1..(Len(splResult.Chunks) - 1) :
            splResult.Chunks[i + 1].StartTime =
                splResult.Chunks[i].StartTime + splResult.Chunks[i].Duration

\* C3: every chunk of every SplitResult that Split returns lasts at least
\* one second, on the split path and on the no-split path.
C3_EveryChunkAtLeastOneSecond ==
    (splPc = "returned" /\ ~splResult.nil) =>
        \A i \in 1..Len(splResult.Chunks) :
            splResult.Chunks[i].Duration >= MinChunkDurationSeconds

\* Split has returned from the split path with chunk files found, and
\* CleanupChunks has not run yet
SplitFiltered ==
    /\ splPc = "returned"
    /\ splPath \in {"probed", "estimated"}
    /\ splCleaned = <<>>

SplitEstimated ==
    /\ splPc = "returned"
    /\ splPath = "estimated"

RECURSIVE SumOfDurations(_)
SumOfDurations(chunks) ==
    IF chunks = <<>> THEN 0
    ELSE Head(chunks).Duration + SumOfDurations(Tail(chunks))

\* C27: when the duration probe fails for any chunk, every chunk but the last
\* gets the requested segment length as its duration, the last one gets the
\* total duration minus its start, the start times are the running sum of the
\* durations, and the durations sum to the total duration of the input.
C27_EstimateCoversTheInput ==
    SplitEstimated =>
        LET n == Len(splRaw)
        IN  /\ \A i \in 1..(n - 1) :
                  splRaw[i].Duration = calculateChunkDuration(splInput)
            /\ splRaw[n].Duration = splInput.Duration - splRaw[n].StartTime
            /\ splRaw[1].StartTime = 0
            /\ \A i \in 1..(n - 1) :
                  splRaw[i + 1].StartTime = splRaw[i].StartTime + splRaw[i].Duration
            /\ SumOfDurations(splRaw) = splInput.Duration

\* Split has returned an error after MkdirAll had made the chunk directory
SplitFailedAfterMkdir ==
    /\ splPc = "returned"
    /\ splErr # ""
    /\ splPath \in {"ffmpeg", "readdir", "nochunks", "probed", "estimated"}
    /\ splCleaned = <<>>

\* C28: whenever Split fails after it made the chunk directory (ffmpeg
\* failed, no chunk file was found, or every chunk was filtered out as too
\* short), no chunk file and no chunk directory is left on disk when Split
\* returns.
C28_NothingLeftAfterFailedSplit ==
    SplitFailedAfterMkdir =>
        /\ splDisk = {}
        /\ ~splDir

FileExists(fs, path) ==
    IF path = InputPath THEN fs.orig ELSE fs.dir /\ path.n \in fs.disk

-----------------------------------------------------------------------------
(* Claims about the merger, checked under SpecMerge *)

\* number of segments (words) of the non-nil results before results[i]
RECURSIVE SegBase(_, _)
SegBase(results, i) ==
    IF i <= 1 THEN 0
    ELSE SegBase(results, i - 1) +
         (IF results[i - 1].nil THEN 0 ELSE Len(results[i - 1].Segments))
RECURSIVE WordBase(_, _)
WordBase(results, i) ==
    IF i <= 1 THEN 0
    ELSE WordBase(results, i - 1) +
         (IF results[i - 1].nil THEN 0 ELSE Len(results[i - 1].WordSegments))

Merged == mrgPc = "returned" /\ ~mrgOut.nil

\* every segment and word of results[i] is in the output, in its place, moved by off
ShiftedBy(i, off) ==
    LET r == mrgResults[i]
        sb == SegBase(mrgResults, i)
        wb == WordBase(mrgResults, i)
    IN  /\ Len(mrgOut.Segments) >= sb + Len(r.Segments)
        /\ Len(mrgOut.WordSegments) >= wb + Len(r.WordSegments)
        /\ \A j \in 1..Len(r.Segments) :
              /\ mrgOut.Segments[sb + j].Start = r.Segments[j].Start + off
              /\ mrgOut.Segments[sb + j].End = r.Segments[j].End + off
              /\ mrgOut.Segments[sb + j].Text = r.Segments[j].Text
              /\ mrgOut.Segments[sb + j].Language = r.Segments[j].Language
        /\ \A j \in 1..Len(r.WordSegments) :
              /\ mrgOut.WordSegments[wb + j].Start = r.WordSegments[j].Start + off
              /\ mrgOut.WordSegments[wb + j].End = r.WordSegments[j].End + off
              /\ mrgOut.WordSegments[wb + j].Word = r.WordSegments[j].Word
              /\ mrgOut.WordSegments[wb + j].Score = r.WordSegments[j].Score

\* C4 (as claimed): for every call and every result index i, every output
\* segment and word that comes from results[i] has the input start and end
\* plus chunks[i].start_time, and text, word, score and language unchanged.
C4_OffsetAddedInEveryCall ==
    Merged =>
        \A i \in 1..Len(mrgResults) :
            (~mrgResults[i].nil /\ i <= Len(mrgChunks)) =>
                ShiftedBy(i, mrgChunks[i].StartTime)

\* C4 (amended): in a call with two or more results, every output segment and
\* word that comes from results[i] has the input start and end plus
\* chunks[i].start_time (plus 0 when there is no chunks[i]), and text, word,
\* score and language unchanged; a single result is returned as it is, with
\* no offset added.
C4_OffsetAddedWhenMerging ==
    Merged =>
        /\ Len(mrgResults) >= 2 =>
              \A i \in 1..Len(mrgResults) :
                  ~mrgResults[i].nil =>
                      ShiftedBy(i, IF i <= Len(mrgChunks)
                                   THEN mrgChunks[i].StartTime ELSE 0)
        /\ Len(mrgResults) = 1 => (mrgSame /\ ShiftedBy(1, 0))

\* a later result with a segment and a word was merged at a chunk offset > 0
C4_Witness ==
    /\ Merged
    /\ Len(mrgResults) >= 2
    /\ Len(mrgChunks) >= 2
    /\ ~mrgResults[2].nil
    /\ Len(mrgResults[2].Segments) >= 1
    /\ Len(mrgResults[2].WordSegments) >= 1
    /\ mrgChunks[2].StartTime > 0

SortedByStart(segs) ==
    \A j \in 1..(Len(segs) - 1) : segs[j].Start <= segs[j + 1].Start

\* one chunk per result, each chunk starting where the one before it ends
ChunksContiguous ==
    /\ Len(mrgChunks) = Len(mrgResults)
    /\ \A k \in 1..(Len(mrgChunks) - 1) :
          mrgChunks[k + 1].StartTime = mrgChunks[k].StartTime + mrgChunks[k].Duration

InputsSorted ==
    \A i \in 1..Len(mrgResults) :
        ~mrgResults[i].nil => SortedByStart(mrgResults[i].Segments)

\* every segment starts inside its chunk
StartsWithinChunks ==
    \A i \in 1..Len(mrgResults) :
        ~mrgResults[i].nil =>
            \A j \in 1..Len(mrgResults[i].Segments) :
                /\ mrgResults[i].Segments[j].Start >= 0
                /\ mrgResults[i].Segments[j].Start <= mrgChunks[i].Duration

\* the merged segments are the inputs' segments, in chunk order then original
\* order, each moved by its chunk's start, and sorted by start
CountOrderSorted ==
    /\ Len(mrgOut.Segments) = SegBase(mrgResults, Len(mrgResults) + 1)
    /\ \A i \in 1..Len(mrgResults) :
          ~mrgResults[i].nil =>
              \A j \in 1..Len(mrgResults[i].Segments) :
                  LET o == mrgOut.Segments[SegBase(mrgResults, i) + j]
                      off == IF Len(mrgResults) = 1 THEN 0 ELSE mrgChunks[i].StartTime
                  IN  /\ o.Start = mrgResults[i].Segments[j].Start + off
                      /\ o.Text = mrgResults[i].Segments[j].Text
    /\ SortedByStart(mrgOut.Segments)

\* C5 (as claimed): when every result's segments are sorted by start and the
\* chunk start times are contiguous, the merged result has as many segments
\* as the inputs together, in chunk order then original order, and they are
\* in non-decreasing order of start.
C5_MergedCountAndOrder ==
    (Merged /\ InputsSorted /\ ChunksContiguous) => CountOrderSorted

\* C5 (amended): the same, for results whose segments also start inside
\* their chunk (0 <= start <= chunks[i].duration).
C5_MergedCountAndOrderWithinChunks ==
    (Merged /\ InputsSorted /\ ChunksContiguous /\ StartsWithinChunks)
        => CountOrderSorted

\* two results with segments, sorted and inside contiguous chunks, were merged
C5_Witness ==
    /\ Merged
    /\ InputsSorted /\ ChunksContiguous /\ StartsWithinChunks
    /\ Len(mrgResults) >= 2
    /\ ~mrgResults[1].nil /\ Len(mrgResults[1].Segments) >= 1
    /\ ~mrgResults[2].nil /\ Len(mrgResults[2].Segments) >= 1
    /\ mrgResults[1].Segments[1].Start > 0

\* every output segment and word carries the label want(i, label) of its input
LabelsAre(want(_, _)) ==
    \A i \in 1..Len(mrgResults) :
        ~mrgResults[i].nil =>
            LET r == mrgResults[i]
                sb == SegBase(mrgResults, i)
                wb == WordBase(mrgResults, i)
            IN  /\ Len(mrgOut.Segments) >= sb + Len(r.Segments)
                /\ Len(mrgOut.WordSegments) >= wb + Len(r.WordSegments)
                /\ \A j \in 1..Len(r.Segments) :
                      mrgOut.Segments[sb + j].Speaker = want(i, r.Segments[j].Speaker)
                /\ \A j \in 1..Len(r.WordSegments) :
                      mrgOut.WordSegments[wb + j].Speaker =
                          want(i, r.WordSegments[j].Speaker)

SameLabel(i, speaker) == speaker

\* C6: in a merge with speaker_refs_used = true every output segment and word
\* carries exactly the speaker label of its input segment or word (nil stays
\* nil, no prefix is added), for any number of chunks.
C6_LabelsPassThroughWithRefs ==
    (Merged /\ mrgRefsUsed) => LabelsAre(SameLabel)

\* results with a nil, an empty and a "Speaker A" label were merged with refs
C6_Witness ==
    /\ Merged /\ mrgRefsUsed
    /\ Len(mrgResults) >= 2
    /\ ~mrgResults[2].nil
    /\ \E j \in 1..Len(mrgResults[2].Segments) :
          mrgResults[2].Segments[j].Speaker = PtrTo(Str_Speaker \o Str_A)
    /\ \E j \in 1..Len(mrgResults[2].WordSegments) :
          mrgResults[2].WordSegments[j].Speaker = NilStr

\* "i-" followed by L without a leading "Speaker "; nil and "" stay
PrefixedLabel(i, speaker) ==
    IF speaker = NilStr \/ speaker[1] = <<>> THEN speaker
    ELSE PtrTo(Itoa(i - 1) \o <<"-">> \o TrimPrefix(speaker[1], Str_Speaker))

\* s matches ^\d+-.*$ when rest = 0 and ^\d+-.+$ when rest = 1
MatchesIndexDash(s, rest) ==
    \E k \in 2..Len(s) :
        /\ \A d \in 1..(k - 1) : IsDigit(s[d])
        /\ s[k] = "-"
        /\ Len(s) >= k + rest
        /\ \A c \in (k + 1)..Len(s) : s[c] # "\n"

OutputLabels ==
    {mrgOut.Segments[j].Speaker : j \in 1..Len(mrgOut.Segments)}
        \cup {mrgOut.WordSegments[j].Speaker : j \in 1..Len(mrgOut.WordSegments)}

\* C7 (as claimed): in a merge with speaker_refs_used = false and more than
\* one chunk, every non-empty label L of chunk i becomes "i-" followed by L
\* without a leading "Speaker ", and every non-empty output label matches
\* ^\d+-.+$.
C7_PrefixedLabelsMatchPattern ==
    (Merged /\ ~mrgRefsUsed /\ Len(mrgResults) > 1) =>
        /\ LabelsAre(PrefixedLabel)
        /\ \A l \in OutputLabels :
              (l # NilStr /\ l[1] # <<>>) => MatchesIndexDash(l[1], 1)

\* C7 (amended): in such a merge every non-empty label L of chunk i becomes
\* "i-" followed by L without a leading "Speaker ", so every non-empty output
\* label is a chunk index, a dash and what is left of L: nothing is left when
\* L is exactly "Speaker ", and the output is then "i-".
C7_LabelsPrefixedWithChunkIndex ==
    (Merged /\ ~mrgRefsUsed /\ Len(mrgResults) > 1) =>
        /\ LabelsAre(PrefixedLabel)
        /\ \A l \in OutputLabels :
              (l # NilStr /\ l[1] # <<>>) => MatchesIndexDash(l[1], 0)

\* the second chunk's label "Speaker A" was merged without speaker references
C7_Witness ==
    /\ Merged /\ ~mrgRefsUsed
    /\ Len(mrgResults) > 1
    /\ ~mrgResults[2].nil
    /\ \E j \in 1..Len(mrgResults[2].Segments) :
          mrgResults[2].Segments[j].Speaker = PtrTo(Str_Speaker \o Str_A)
    /\ PtrTo(<<"1", "-", "A">>) \in OutputLabels

\* C12: MergeResults returns null for an empty result list, and for exactly
\* one result returns that result itself, unchanged, whatever the chunks and
\* speaker_refs_used are: no offset, no label rewritten, no metadata added.
C12_EmptyAndSinglePassThrough ==
    mrgPc = "returned" =>
        /\ Len(mrgResults) = 0 => mrgOut = NilPtr
        /\ Len(mrgResults) = 1 => (mrgSame /\ mrgOut = mrgResults[1])

\* a single result with a speaker label, for a chunk that starts after 0,
\* without speaker references
C12_Witness ==
    /\ Merged
    /\ Len(mrgResults) = 1
    /\ Len(mrgChunks) = 1
    /\ mrgChunks[1].StartTime > 0
    /\ ~mrgRefsUsed
    /\ ~mrgResults[1].nil
    /\ \E k \in 1..Len(mrgResults[1].Segments) :
         mrgResults[1].Segments[k].Speaker # NilStr
    /\ mrgSame

MergedMany == mrgPc = "returned" /\ Len(mrgResults) >= 2

\* s without the white space at its two ends
TrimmedOf(s) ==
    LET inked == {k \in 1..Len(s) : ~IsSpace(s[k])}
    IN  IF inked = {} THEN <<>>
        ELSE SubSeq(s, CHOOSE a \in inked : \A k \in inked : a <= k,
                       CHOOSE b \in inked : \A k \in inked : b >= k)

\* the parts from k on, a single space between two of them
RECURSIVE SpacedFrom(_, _)
SpacedFrom(parts, k) ==
    IF k > Len(parts) THEN <<>>
    ELSE IF k = Len(parts) THEN parts[k]
    ELSE parts[k] \o <<" ">> \o SpacedFrom(parts, k + 1)

\* the results that are identity transcriptions of their chunks
IdentityResults ==
    \A i \in 1..Len(mrgResults) :
        /\ ~mrgResults[i].nil
        /\ mrgResults[i].Text = Str_Chunk(i - 1)
        /\ Len(mrgResults[i].Segments) = 1

IdentityMerged ==
    (MergedMany /\ IdentityResults) =>
        /\ Len(mrgOut.Segments) = Len(mrgResults)
        /\ mrgOut.Text = SpacedFrom([i \in 1..Len(mrgResults) |-> Str_Chunk(i - 1)], 1)

\* C22: the text of a merge of N >= 2 results is the trimmed texts of the
\* results joined by single spaces in chunk order; N results of one segment
\* each with the texts chunk-0 .. chunk-(N-1) give N segments and the text
\* "chunk-0 chunk-1 ... chunk-(N-1)".
C22_TextIsTheTrimmedTextsJoined ==
    /\ (MergedMany /\ \A i \in 1..Len(mrgResults) : ~mrgResults[i].nil) =>
          mrgOut.Text =
            SpacedFrom([i \in 1..Len(mrgResults) |-> TrimmedOf(mrgResults[i].Text)], 1)
    /\ IdentityMerged

\* C22 as amended: the text of a merge of N >= 2 results is the trimmed
\* texts of the results that are not nil and whose text is not empty, joined
\* by single spaces in chunk order; the identity case as above.
C22_TextIsTheNonEmptyTextsJoined ==
    /\ MergedMany =>
          LET texted == SelectSeq(mrgResults, LAMBDA r : ~r.nil /\ r.Text # <<>>)
          IN  mrgOut.Text =
                SpacedFrom([i \in 1..Len(texted) |-> TrimmedOf(texted[i].Text)], 1)
    /\ IdentityMerged

\* three results: a text, no text, a text inside white space
C22_Witness ==
    /\ MergedMany
    /\ Len(mrgResults) = 3
    /\ \A i \in 1..3 : ~mrgResults[i].nil
    /\ mrgResults[1].Text = Str_Chunk(0)
    /\ mrgResults[2].Text = <<>>
    /\ mrgResults[3].Text = <<" ">> \o Str_Chunk(2) \o <<"\n">>
    /\ mrgOut.Text = Str_Chunk(0) \o <<" ">> \o Str_Chunk(2)

\* the input results that define the metadata key
Defining(key) ==
    {i \in 1..Len(mrgResults) :
        ~mrgResults[i].nil /\ key \in DOMAIN mrgResults[i].Metadata.kv}

\* the merged metadata has the key exactly when an input result defines it,
\* with the value of the last one that does
FromLastDefining(key) ==
    /\ key \in DOMAIN mrgOut.Metadata.kv <=> Defining(key) # {}
    /\ Defining(key) # {} =>
          LET last == CHOOSE i \in Defining(key) : \A j \in Defining(key) : j <= i
          IN  mrgOut.Metadata.kv[key] = mrgResults[last].Metadata.kv[key]

InputKeys ==
    UNION {DOMAIN mrgResults[i].Metadata.kv :
              i \in {j \in 1..Len(mrgResults) : ~mrgResults[j].nil}}

OtherKeys ==
    (InputKeys \cup DOMAIN mrgOut.Metadata.kv)
        \ {"chunks_processed", "speaker_references_used"}

\* C23: the metadata of a merge of N >= 2 results has chunks_processed = N,
\* has speaker_references_used (with the value "true") if and only if
\* speaker_refs_used is true, and has every other key with the value of the
\* last input result that defines it.
C23_MetadataAnnotated ==
    MergedMany =>
        /\ ~mrgOut.Metadata.nil
        /\ "chunks_processed" \in DOMAIN mrgOut.Metadata.kv
        /\ mrgOut.Metadata.kv["chunks_processed"] = ToString(Len(mrgResults))
        /\ mrgRefsUsed <=>
              /\ "speaker_references_used" \in DOMAIN mrgOut.Metadata.kv
              /\ mrgOut.Metadata.kv["speaker_references_used"] = "true"
        /\ \A key \in OtherKeys : FromLastDefining(key)

\* C23 as amended: chunks_processed = N; speaker_references_used is "true"
\* when speaker_refs_used is true, and is otherwise there only when an input
\* result defines it, with the value of the last one that does, like every
\* other key.
C23_MetadataAnnotatedOverInputs ==
    MergedMany =>
        /\ ~mrgOut.Metadata.nil
        /\ "chunks_processed" \in DOMAIN mrgOut.Metadata.kv
        /\ mrgOut.Metadata.kv["chunks_processed"] = ToString(Len(mrgResults))
        /\ mrgRefsUsed =>
              /\ "speaker_references_used" \in DOMAIN mrgOut.Metadata.kv
              /\ mrgOut.Metadata.kv["speaker_references_used"] = "true"
        /\ ~mrgRefsUsed => FromLastDefining("speaker_references_used")
        /\ \A key \in OtherKeys : FromLastDefining(key)

\* three results that define the key job, the second one chunks_processed
\* too, merged with speaker references
C23_Witness ==
    /\ MergedMany
    /\ Len(mrgResults) = 3
    /\ mrgRefsUsed
    /\ Defining("job") = {1, 2, 3}
    /\ Defining("chunks_processed") = {2}
    /\ mrgOut.Metadata.kv["job"] = "2"
    /\ mrgOut.Metadata.kv["chunks_processed"] = "3"
    /\ mrgOut.Metadata.kv["speaker_references_used"] = "true"

-----------------------------------------------------------------------------
(* Post-processor claims, checked under SpecPost *)

Returned == ptPc = "returned"

\* the batches of the call, and what went into ApplyMerges
SentBatches == BatchesSent(ptProc, ptInput)
AllCleaned == Flatten([b \in 1..Len(ptLog) |-> ptLog[b].cleaned])

\* the positions of allCleaned that batch b filled
RECURSIVE CleanedBefore(_)
CleanedBefore(b) == IF b <= 1 THEN 0 ELSE CleanedBefore(b - 1) + Len(ptLog[b - 1].cleaned)
CleanedOf(b) == (CleanedBefore(b) + 1)..(CleanedBefore(b) + Len(ptLog[b].cleaned))

\* the output segments that start in batch b
DerivedFrom(b) ==
    LET from == applyMergesRun(AllCleaned).from
    IN  {k \in 1..Len(ptOut.Segments) : from[k] \in CleanedOf(b)}

MinOf(S) == CHOOSE x \in S : \A y \in S : x <= y
MaxOf(S) == CHOOSE x \in S : \A y \in S : x >= y

Accepted(b) == ptLog[b].err = ""

EnvelopeKept(b) ==
    /\ MinOf({ptOut.Segments[k].Start : k \in DerivedFrom(b)})
         = MinOf({SentBatches[b][i].Start : i \in 1..Len(SentBatches[b])})
    /\ MaxOf({ptOut.Segments[k].End : k \in DerivedFrom(b)})
         = MaxOf({SentBatches[b][i].End : i \in 1..Len(SentBatches[b])})

\* C8: for every batch whose LLM response was accepted, the output segments
\* derived from the batch have the smallest start and the largest end of the
\* batch's input segments: the LLM's timestamps never move or escape the
\* envelope [batch.first.start, batch.last.end].
C8_BatchEnvelopePreserved ==
    Returned =>
        \A b \in 1..Len(ptLog) :
            (Accepted(b) /\ DerivedFrom(b) # {}) => EnvelopeKept(b)

\* C9: whatever the input result and whatever the LLM answers for each batch,
\* ProcessTranscript returns no more segments than its input has.
C9_NoMoreSegmentsThanInput ==
    Returned => (~ptOut.nil /\ Len(ptOut.Segments) <= Len(ptInput.Segments))

\* two batches, one answered with an error and one with fewer segments, and
\* fewer segments returned than given
C9_Witness ==
    /\ Returned
    /\ Len(ptLog) >= 2
    /\ \E b \in 1..Len(ptLog) : ~Accepted(b)
    /\ \E b \in 1..Len(ptLog) :
         Accepted(b) /\ Len(ptLog[b].cleaned) < Len(SentBatches[b])
    /\ Len(ptOut.Segments) < Len(ptInput.Segments)

ConfiguredOn == ptConfig.enabled /\ ptConfig.apiKey # ""

\* C10: the post-processor is active only when the enabled flag is true and
\* the API key is not empty; in every other configuration ProcessTranscript
\* returns its input result itself, nothing of it changed, and calls no LLM.
C10_InactiveUnlessEnabledWithKey ==
    /\ (ptProc.enabled /\ ptProc.llmService) => ConfiguredOn
    /\ Returned =>
        /\ (ptCalls > 0 \/ ~ptSame) => ConfiguredOn
        /\ ~ConfiguredOn =>
              /\ ptSame
              /\ ptOut = ptInput
              /\ ptAfter = ptInput
              /\ ptCalls = 0

\* enabled without an API key, called on a result that has segments and a
\* metadata map
C10_Witness ==
    /\ Returned
    /\ ptConfig.enabled
    /\ ptConfig.apiKey = ""
    /\ Len(ptInput.Segments) > 0
    /\ ~ptInput.Metadata.nil
    /\ ptSame

\* the label a *string speaker stands for
LabelOf(speaker) == IF speaker = NilStr THEN <<>> ELSE speaker[1]

\* the output segment that began at position pos of allCleaned is the
\* segment seg, its text, start, end and speaker label unchanged
OutputHas(pos, seg) ==
    LET from == applyMergesRun(AllCleaned).from
    IN  \E k \in 1..Len(ptOut.Segments) :
            /\ from[k] = pos
            /\ ptOut.Segments[k].Text = seg.Text
            /\ ptOut.Segments[k].Start = seg.Start
            /\ ptOut.Segments[k].End = seg.End
            /\ LabelOf(ptOut.Segments[k].Speaker) = LabelOf(seg.Speaker)

\* C16: an active post-processor never returns an error, whichever batches
\* fail; every batch is sent to the LLM, and for each failed batch the output
\* holds the batch's original segments, in their order, with the same text,
\* start, end and speaker label.
C16_FailedBatchFallsBack ==
    (Returned /\ ptProc.enabled /\ ptProc.llmService /\ Len(ptInput.Segments) > 0) =>
        /\ ptErr = ""
        /\ ~ptOut.nil
        /\ ptCalls = Len(SentBatches)
        /\ \A b \in 1..Len(ptLog) :
             ~Accepted(b) =>
                \A i \in 1..Len(SentBatches[b]) :
                    OutputHas(CleanedBefore(b) + i, SentBatches[b][i])

\* C26: ProcessTranscript does not modify the TranscriptResult it is given:
\* after the call the input has the text, segments, words and metadata
\* entries it had before, and the marks ai_postprocessed and
\* postprocessor_model are in the returned result only.
C26_InputLeftAsItWas ==
    Returned =>
        /\ ptAfter.Text = ptInput.Text
        /\ ptAfter.Segments = ptInput.Segments
        /\ ptAfter.WordSegments = ptInput.WordSegments
        /\ ptAfter.Metadata = ptInput.Metadata
        /\ ~ptSame =>
              \A key \in {"ai_postprocessed", "postprocessor_model"} :
                  /\ key \in DOMAIN ptOut.Metadata.kv
                  /\ key \notin DOMAIN ptAfter.Metadata.kv

-----------------------------------------------------------------------------
(* Claims on the helper functions, checked under SpecFn *)

ParseReturned == fnOp = "parseCleanupResponse" /\ fnPc = "returned"

\* the content is the document, alone or inside a markdown fence
Wraps(content, doc) ==
    \E open \in {<<>>, <<Fence>>, <<Fence, Lit("json")>>},
       close \in {<<>>, <<Fence>>},
       before \in {<<>>, <<Lit("\n")>>},
       after \in {<<>>, <<Lit("\n")>>} :
        content = open \o before \o <<doc>> \o after \o close

\* the documents of the given kinds that the content wraps
WrappedDocs(content, kinds) ==
    {content[k] : k \in {j \in 1..Len(content) :
                            /\ IsDoc(content[j])
                            /\ content[j].json \in kinds
                            /\ Wraps(content, content[j])}}

\* what the claim says of the arrays: too long an array is an error, an
\* array of at most n elements is accepted, and returned as it is when it
\* has an element
ArraysJudgedByCount ==
    \A doc \in WrappedDocs(fnArg.content, {"segments"}) :
        /\ Len(doc.segments) > Len(fnArg.originalSegments)
             => Contains(fnRet.err, "segment count increased")
        /\ Len(doc.segments) <= Len(fnArg.originalSegments)
             => /\ fnRet.err = ""
                /\ Len(doc.segments) >= 1 => fnRet.segments = doc.segments

SplitReturned == fnOp = "splitIntoBatches" /\ fnPc = "returned"

\* C17: splitIntoBatches on n >= 1 segments with batch size B = 50 returns
\* ceil(n / B) batches, none empty, each of at most B segments, all but the
\* last of exactly B, whose concatenation in order is the input.
C17_BatchesPartitionTheInput ==
    SplitReturned =>
        LET n == Len(fnArg.segments)
            B == DefaultMaxSegmentsPerBatch
        IN  /\ fnArg.p.maxSegmentsPerBatch = B
            /\ Len(fnRet) = (n + B - 1) \div B
            /\ \A b \in 1..Len(fnRet) :
                    /\ Len(fnRet[b]) >= 1
                    /\ Len(fnRet[b]) <= B
                    /\ b < Len(fnRet) => Len(fnRet[b]) = B
            /\ Flatten(fnRet) = fnArg.segments

\* three batches, the last one of a single segment
C17_Witness ==
    /\ SplitReturned
    /\ Len(fnArg.segments) = 2 * DefaultMaxSegmentsPerBatch + 1
    /\ Len(fnRet) = 3
    /\ Len(fnRet[3]) = 1

MergesReturned == fnOp = "ApplyMerges" /\ fnPc = "returned"

\* position i is where a chain or a single segment begins: the flagged
\* stretch that ends just before i holds nothing but "[REMOVE]" segments
BeginsAt(cleaned, i) ==
    \E k \in 1..i :
        /\ k = 1 \/ ~cleaned[k - 1].MergeWithNext
        /\ \A j \in k..(i - 1) :
                cleaned[j].MergeWithNext /\ cleaned[j].Text = Str_REMOVE

\* the positions that give an output segment, and the k-th of them
RunStarts(cleaned) ==
    {i \in 1..Len(cleaned) : BeginsAt(cleaned, i) /\ cleaned[i].Text # Str_REMOVE}
NthOf(S, k) == CHOOSE x \in S : Cardinality({y \in S : y < x}) = k - 1

\* the run from i ends at the first segment whose flag is false, or at the
\* end of the list
RunEnd(cleaned, i) ==
    CHOOSE e \in i..Len(cleaned) :
        /\ e = Len(cleaned) \/ ~cleaned[e].MergeWithNext
        /\ \A j \in i..(e - 1) : cleaned[j].MergeWithNext

\* the texts of i..e other than "[REMOVE]", one after the other
RECURSIVE RunText(_, _, _)
RunText(cleaned, i, e) ==
    IF i > e THEN <<>>
    ELSE (IF cleaned[i].Text = Str_REMOVE THEN <<>> ELSE cleaned[i].Text)
         \o RunText(cleaned, i + 1, e)

\* C18: ApplyMerges drops a "[REMOVE]" segment that no earlier chain holds,
\* turns each maximal run linked by merge_with_next into one segment (start
\* of the first, end of the last, speaker of the first, the texts other than
\* "[REMOVE]" concatenated without separator), copies every other segment
\* unchanged, and keeps the input order.
C18_MergesFollowTheFlags ==
    MergesReturned =>
        LET cleaned == fnArg.cleaned
            starts == RunStarts(cleaned)
        IN  /\ Len(fnRet) = Cardinality(starts)
            /\ \A k \in 1..Len(fnRet) :
                    LET i == NthOf(starts, k)
                        e == RunEnd(cleaned, i)
                    IN  /\ fnRet[k].Start = cleaned[i].Start
                        /\ fnRet[k].End = cleaned[e].End
                        /\ fnRet[k].Speaker = PtrTo(cleaned[i].Speaker)
                        /\ fnRet[k].Text = RunText(cleaned, i, e)
                        /\ e = i => fnRet[k].Text = cleaned[i].Text

\* a dropped "[REMOVE]" segment, then a run of two with a "[REMOVE]" segment
\* at its end, then a segment copied as it is
C18_Witness ==
    /\ MergesReturned
    /\ Len(fnArg.cleaned) = 4
    /\ fnArg.cleaned[1].Text = Str_REMOVE /\ fnArg.cleaned[1].MergeWithNext
    /\ fnArg.cleaned[2].Text = <<"a">> /\ fnArg.cleaned[2].MergeWithNext
    /\ fnArg.cleaned[3].Text = Str_REMOVE /\ ~fnArg.cleaned[3].MergeWithNext
    /\ fnArg.cleaned[4].Text = <<"b">>
    /\ Len(fnRet) = 2
    /\ fnRet[1].Text = <<"a">> /\ fnRet[1].Start = 1 /\ fnRet[1].End = 3
    /\ fnRet[2].Text = <<"b">> /\ fnRet[2].Start = 3 /\ fnRet[2].End = 4

RebuildReturned == fnOp = "rebuildFullText" /\ fnPc = "returned"

\* a segment text that goes into the full text
Spoken(text) == text # <<>> /\ text # Str_REMOVE

\* the spoken texts of the segments from k on, a space between two of them
RECURSIVE SpaceJoined(_, _)
SpaceJoined(segments, k) ==
    IF k > Len(segments) THEN <<>>
    ELSE IF ~Spoken(segments[k].Text) THEN SpaceJoined(segments, k + 1)
    ELSE IF \E j \in (k + 1)..Len(segments) : Spoken(segments[j].Text)
    THEN segments[k].Text \o <<" ">> \o SpaceJoined(segments, k + 1)
    ELSE segments[k].Text

\* C19: the text of a post-processed result is the output segment texts that
\* are neither empty nor "[REMOVE]", in order, joined by single spaces; no
\* character of a "[REMOVE]" segment is in it, and no segment gives "".
C19_TextIsTheSpokenSegments ==
    RebuildReturned =>
        /\ fnRet = SpaceJoined(fnArg.segments, 1)
        /\ \A c \in 1..Len(fnRet) : fnRet[c] \in {"a", "b", "c", " "}
        /\ Len(fnArg.segments) = 0 => fnRet = <<>>
        /\ (\A k \in 1..Len(fnArg.segments) : ~Spoken(fnArg.segments[k].Text))
                => fnRet = <<>>

\* a "[REMOVE]" segment and an empty one between two spoken segments
C19_Witness ==
    /\ RebuildReturned
    /\ Len(fnArg.segments) = 4
    /\ fnArg.segments[1].Text = <<"a">>
    /\ fnArg.segments[2].Text = Str_REMOVE
    /\ fnArg.segments[3].Text = <<>>
    /\ fnArg.segments[4].Text = <<"b", "c">>
    /\ fnRet = <<"a", " ", "b", "c">>

SelectReturned == fnOp = "selectBestSegment" /\ fnPc = "returned"

InSampleBounds(d) == d >= MinSampleDurationSec /\ d <= MaxSampleDurationSec

\* the segments i..j follow each other with gaps of at most 1 second and
\* span at least 2 seconds from the start of the first to the end of the last
RunSpansMinimum(segments, i, j) ==
    /\ \A k \in i..(j - 1) : segments[k + 1].Start - segments[k].End <= 1 * TicksPerSec
    /\ segments[j].End - segments[i].Start >= MinSampleDurationSec

\* C24: selectBestSegment returns nothing, or an interval of 2 s to 10 s that
\* starts where an input segment starts; with an input segment of 2 s to
\* 10 s it returns a longest such segment untrimmed; it returns nothing only
\* when no segment reaches 2 s and no run of segments with gaps of at most
\* 1 s spans 2 s.
C24_SampleWithinBounds ==
    SelectReturned =>
        LET segments == fnArg.segments
            all == 1..Len(segments)
            ideal == {i \in all : InSampleBounds(DurationOf(segments[i]))}
        IN  /\ ~fnRet.nil =>
                  /\ InSampleBounds(fnRet.End - fnRet.Start)
                  /\ \E i \in all : segments[i].Start = fnRet.Start
            /\ ideal # {} =>
                  /\ ~fnRet.nil
                  /\ \E i \in ideal :
                        /\ fnRet = PtrToSeg(segments[i])
                        /\ \A j \in ideal :
                              DurationOf(segments[j]) <= DurationOf(segments[i])
            /\ fnRet.nil =>
                  /\ \A i \in all : DurationOf(segments[i]) < MinSampleDurationSec
                  /\ \A i \in all : \A j \in i..Len(segments) :
                        ~RunSpansMinimum(segments, i, j)

\* two segments of less than 2 s, 1 s apart, put together into one sample
C24_Witness ==
    /\ SelectReturned
    /\ Len(fnArg.segments) = 2
    /\ \A i \in 1..2 : DurationOf(fnArg.segments[i]) = MinSampleDurationSec - 1
    /\ fnArg.segments[2].Start - fnArg.segments[1].End = 1 * TicksPerSec
    /\ ~fnRet.nil
    /\ fnRet.Start = fnArg.segments[1].Start
    /\ fnRet.End = fnArg.segments[2].End

\* C30: every output segment that ApplyMerges builds from a merge chain
\* combines input segments of one speaker label only: each segment of the
\* chain whose text goes into the output has the label of the chain's first
\* segment, which is the label of the output segment.
C30_ChainsStayWithinOneSpeaker ==
    MergesReturned =>
        \A i \in RunStarts(fnArg.cleaned) :
            \A j \in i..RunEnd(fnArg.cleaned, i) :
                fnArg.cleaned[j].Text # Str_REMOVE =>
                    fnArg.cleaned[j].Speaker = fnArg.cleaned[i].Speaker

FormatReturned ==
    /\ fnPc = "returned"
    /\ fnOp = "Transcribe"

\* C29: for every model string, Transcribe decodes the response in the
\* diarized branch if and only if it sent response_format = diarized_json
\* and chunking_strategy = auto, also when the model name contains "diarize"
\* without starting with "gpt-4o".
C29_ParserFollowsTheRequestFormat ==
    FormatReturned =>
        (fnRet.branch = "diarized" <=>
            /\ fnRet.fields.response_format = "diarized_json"
            /\ fnRet.fields.chunking_strategy = "auto")

-----------------------------------------------------------------------------
(* Claims about the speaker samples, checked under SpecSamples *)

\* C25: after ExtractSpeakerSamples and CleanupSpeakerSamples on the samples
\* it returned, no clip file written during the extraction is on disk, the
\* clips of the speakers left out of the samples included.
C25_NoClipLeftAfterCleanup ==
    smpPc = "cleaned" => smpClips = {}

-----------------------------------------------------------------------------
(* Adapter claims, checked under SpecAd *)

RetryablePatterns ==
    {"EOF", "connection reset", "timeout", "connection refused", "network is unreachable",
     "broken pipe", "connection closed"}
MatchesRetryable(errStr) == \E pattern \in RetryablePatterns : Contains(errStr, pattern)

\* C13: Transcribe sends at most three requests; request k+1 is sent only
\* after request k failed at transport level with a message that contains a
\* retryable pattern, and only k*k*5 seconds or more after that failure; a
\* failure that is not retryable, or the failure of the third attempt, ends
\* the call with an error and no further request.
C13_AtMostThreeRequestsWithBackoff ==
    /\ Len(adSent) <= 3
    /\ \A k \in 1..2 :
         Len(adSent) >= k + 1 => (Len(adFails) >= k /\ adFails[k].attempt = k)
    /\ \A k \in 1..Len(adFails) :
         LET retryable == MatchesRetryable(adFails[k].err)
         IN  /\ Len(adSent) >= k + 1 =>
                   (retryable /\ adSent[k + 1] >= adFails[k].at + k * k * 5)
             /\ (~retryable \/ adFails[k].attempt = 3) =>
                   /\ adPc = "done"
                   /\ adRet.result = NilPtr
                   /\ adRet.err # ""
                   /\ Len(adSent) <= k
                   /\ Len(adFails) = k

\* three requests, the second 5 seconds after the first failure, the third
\* 20 seconds after the second failure, and the third failed too
C13_Witness ==
    /\ adPc = "done"
    /\ Len(adSent) = 3
    /\ Len(adFails) = 3
    /\ adSent[2] = adFails[1].at + 5
    /\ adSent[3] = adFails[2].at + 20
    /\ MatchesRetryable(adFails[3].err)

NonSuccess(status) == status < 200 \/ status >= 300

\* C14: once an attempt has received an HTTP response no further attempt is
\* made, whatever the status; a status that is not a success makes
\* Transcribe return an error with the status code and the body in it, and
\* no result.
C14_ResponseEndsTheCall ==
    adResp.status # 0 =>
        /\ adPc = "done"
        /\ Len(adSent) = adResp.attempt
        /\ NonSuccess(adResp.status) =>
              /\ adRet.result = NilPtr
              /\ Contains(adRet.err, ToString(adResp.status))
              /\ Contains(adRet.err, adResp.body)

\* a 503 with a body, answered to the second request
C14_Witness ==
    /\ adResp.status = 503
    /\ adResp.body # ""
    /\ adResp.attempt = 2
    /\ adPc = "done"
    /\ adRet.err # ""

CancelledInBackoff == adCancel.pc = "backoff" /\ adCancel.at < adCancel.wake
IsCtxError(errStr) == \E e \in CtxErrors : Contains(errStr, e)

\* once the context is cancelled in a backoff no time passes in the select
\* and no other request is sent, and what Transcribe returns is the
\* context's error; a client.Do that failed with the context's error is not
\* retried
CancelInBackoffSafe ==
    /\ CancelledInBackoff =>
         /\ Len(adSent) = adCancel.sent
         /\ adPc # "inflight"
         /\ adPc = "backoff" => adClock = adCancel.at
         /\ adPc = "done" =>
               /\ adRet.err = adCtx
               /\ adRet.result = NilPtr
               /\ adDoneAt = adCancel.at
    /\ \A k \in 1..Len(adFails) :
         IsCtxError(adFails[k].err) =>
            /\ adPc = "done"
            /\ Len(adFails) = k
            /\ Len(adSent) <= k

\* C15: when the context is cancelled while Transcribe waits in a backoff,
\* Transcribe returns the context's error, without waiting for the backoff
\* to elapse and without sending another request; a cancellation is never
\* treated as a retryable failure.
C15_CancelEndsTheBackoff ==
    /\ []CancelInBackoffSafe
    /\ (CancelledInBackoff ~> adPc = "done")

\* cancelled two seconds into the first backoff, and returned
C15_Witness ==
    /\ adPc = "done"
    /\ CancelledInBackoff
    /\ Len(adFails) = 1
    /\ adCancel.at = adFails[1].at + 2
    /\ adRet.err = "context canceled"
    /\ Len(adSent) = 1

=============================================================================
